---- MODULE Spec2Model ----
(***************************************************************************)
(* A model of the core of async-graphql.  The execution context            *)
(* (src/context.rs): resolve ids and query paths of the contexts derived   *)
(* during execution, variable resolution and the @skip/@include            *)
(* directives, the substitution of uploaded files into the variables, the  *)
(* conversion of JSON variables and the lookup of data.  The parser        *)
(* (src/parser/parser.rs): from the pairs of the grammar to the AST.  The  *)
(* validation rules OverlappingFieldsCanBeMerged and UploadFile.  The      *)
(* equality of values (src/parser/value.rs).  The dispatch of inline       *)
(* fragments on interfaces and the conformance check of Schema::new, as    *)
(* tests/interface.rs exercises them.                                      *)
(***************************************************************************)
EXTENDS Integers, Sequences, FiniteSets, TLC

VARIABLES
    counter,              \* the AtomicUsize behind inc_resolve_id
    ctxs,                 \* every ContextBase made so far, in order of construction
    calls,                \* with_field / with_index calls that are in flight
    allocated,            \* history: the ids handed out by fetch_add, in order
    variables,            \* Environment.variables (the Value held by Variables)
    variable_definitions, \* Environment.variable_definitions
    op,                   \* the last operation applied, its input and its result
    data,                 \* the Data of the schema and the Data of the request
    visitor               \* the validation visitor: its rule's state and its errors

vars == <<counter, ctxs, calls, allocated, variables, variable_definitions, op,
          data, visitor>>

(***************************************************************************)
(* Option<T>                                                               *)
(***************************************************************************)
None == <<>>
Some(x) == <<x>>
IsSome(o) == o # <<>>
Unwrap(o) == o[1]

NoOp == [name |-> "none"]

\* no Data is registered and no document is being validated
NoData == [schema |-> <<>>, ctx |-> None]
NoVisitor == [rule |-> "none"]
EnvIdle == data = NoData /\ visitor = NoVisitor

(***************************************************************************)
(* Bounds of the model                                                     *)
(***************************************************************************)
MaxCtx == 4        \* contexts made in one execution, the root included
MaxInFlight == 2   \* sibling calls that run at the same time

(***************************************************************************)
(* Resolve ids and contexts                                                *)
(***************************************************************************)

\* ResolveId::root
RootId == [parent |-> None, current |-> 0]

\* the value fetch_add(1, Relaxed) leaves in the counter; the call returns
\* the old value as one atomic read-modify-write
FetchAddStale(old) == old
FetchAdd(old) == old + 1

\* get_child_resolve_id, after its fetch_add has returned old: id = old + 1
ChildIdOfGrandparent(self, old) == [parent |-> self.resolve_id.parent, current |-> old + 1]
ChildResolveId(self, old) == [parent |-> Some(self.resolve_id.current), current |-> old + 1]

\* the fields of the model's queries: alias (optional) and name
Fields == { [alias |-> None, name |-> "a"],
            [alias |-> Some("x"), name |-> "a"],
            [alias |-> None, name |-> "b"] }
Indexes == {0, 1}

\* Field.alias, else Field.name: the Name segment with_field pushes
FieldSegmentOfName(field) == [kind |-> "Name", val |-> field.name]
FieldSegment(field) ==
    [kind |-> "Name",
     val  |-> IF IsSome(field.alias) THEN Unwrap(field.alias) ELSE field.name]

IndexSegment(idx) == [kind |-> "Index", val |-> idx]

\* a QueryPathNode chain is kept leaf first: the head is the node's own
\* segment, the tail is the chain its parent pointer leads to
PushSegment(path_node, segment) == <<segment>> \o path_node

\* self.path_node.clone()
ClonedParent(path_node) == IF path_node = <<>> THEN <<>> ELSE Tail(path_node)
Cloned(path_node) == path_node

\* the items of the contexts: the selection set of the operation, a field
SelectionSetItem == [kind |-> "SelectionSet"]
FieldItem(field) == [kind |-> "Field", alias |-> field.alias, name |-> field.name]

\* result_name
ResultName(ctx) ==
    IF IsSome(ctx.item.alias) THEN Unwrap(ctx.item.alias) ELSE ctx.item.name

\* the references every context of a request carries: to the fields of the
\* Environment, to the registry and the data of the schema, to the counter
EnvRefs ==
    [inc_resolve_id |-> "&inc_resolve_id", variables |-> "&env.variables",
     variable_definitions |-> "&env.variable_definitions",
     registry |-> "&schema.registry", data |-> "&schema.data",
     ctx_data |-> Some("&env.ctx_data"), fragments |-> "&env.fragments"]
RefsOf(self) ==
    [inc_resolve_id |-> self.refs.inc_resolve_id, variables |-> self.refs.variables,
     variable_definitions |-> self.refs.variable_definitions,
     registry |-> self.refs.registry, data |-> self.refs.data,
     ctx_data |-> self.refs.ctx_data, fragments |-> self.refs.fragments]

\* Environment::create_context with path_node = None
RootContext ==
    [path_node |-> None, resolve_id |-> RootId, item |-> SelectionSetItem,
     refs |-> EnvRefs, made_by |-> "create_context", made_on |-> 0,
     pushed |-> None]

ResolveInit ==
    /\ counter = 0
    /\ ctxs = <<RootContext>>
    /\ calls = {}
    /\ allocated = <<>>

ResolveIdle ==
    /\ counter = 0
    /\ ctxs = <<>>
    /\ calls = {}
    /\ allocated = <<>>

\* a sibling resolution enters with_field(field) on context c
CallWithField(c, field) ==
    /\ Len(ctxs) + Cardinality(calls) < MaxCtx
    /\ Cardinality(calls) < MaxInFlight
    /\ c \in 1..Len(ctxs)
    /\ LET call == [on |-> c, fn |-> "with_field", arg |-> FieldSegment(field),
                    item |-> FieldItem(field), pc |-> "fetch_add", old |-> 0]
       IN  /\ call \notin calls
           /\ calls' = calls \cup {call}
    /\ UNCHANGED <<counter, ctxs, allocated, variables, variable_definitions, op, data, visitor>>

\* a sibling resolution enters with_index(idx) on a selection-set context c
CallWithIndex(c, idx) ==
    /\ Len(ctxs) + Cardinality(calls) < MaxCtx
    /\ Cardinality(calls) < MaxInFlight
    /\ c \in 1..Len(ctxs)
    /\ ctxs[c].item.kind = "SelectionSet"
    /\ LET call == [on |-> c, fn |-> "with_index", arg |-> IndexSegment(idx),
                    item |-> ctxs[c].item, pc |-> "fetch_add", old |-> 0]
       IN  /\ call \notin calls
           /\ calls' = calls \cup {call}
    /\ UNCHANGED <<counter, ctxs, allocated, variables, variable_definitions, op, data, visitor>>

\* the call's inc_resolve_id.fetch_add(1, Relaxed): one atomic step
FetchAddStep(call) ==
    /\ call \in calls
    /\ call.pc = "fetch_add"
    /\ counter' = FetchAdd(counter)
    /\ allocated' = Append(allocated, ChildResolveId(ctxs[call.on], counter).current)
    /\ calls' = (calls \ {call}) \cup {[call EXCEPT !.pc = "build", !.old = counter]}
    /\ UNCHANGED <<ctxs, variables, variable_definitions, op, data, visitor>>

\* the call builds the child ContextBase and returns it
ReturnContext(call) ==
    /\ call \in calls
    /\ call.pc = "build"
    /\ LET self == ctxs[call.on]
           child == [path_node |-> PushSegment(self.path_node, call.arg),
                     resolve_id |-> ChildResolveId(self, call.old),
                     item |-> call.item,
                     refs |-> RefsOf(self),
                     made_by |-> call.fn, made_on |-> call.on,
                     pushed |-> Some(call.arg)]
       IN  ctxs' = Append(ctxs, child)
    /\ calls' = calls \ {call}
    /\ UNCHANGED <<counter, allocated, variables, variable_definitions, op, data, visitor>>

\* with_selection_set: no id is allocated, path and id are copied
WithSelectionSet(c) ==
    /\ Len(ctxs) + Cardinality(calls) < MaxCtx
    /\ c \in 1..Len(ctxs)
    /\ LET self == ctxs[c]
           child == [path_node |-> Cloned(self.path_node),
                     resolve_id |-> self.resolve_id,
                     item |-> SelectionSetItem,
                     refs |-> RefsOf(self),
                     made_by |-> "with_selection_set", made_on |-> c,
                     pushed |-> None]
       IN  ctxs' = Append(ctxs, child)
    /\ UNCHANGED <<counter, calls, allocated, variables, variable_definitions, op, data, visitor>>

(***************************************************************************)
(* Value (parser/value.rs) and Result                                      *)
(***************************************************************************)
Null == [kind |-> "Null"]
Variable(name) == [kind |-> "Variable", val |-> name]
IntValue(n) == [kind |-> "Int", val |-> n]
String(s) == [kind |-> "String", val |-> s]
Boolean(b) == [kind |-> "Boolean", val |-> b]
List(ls) == [kind |-> "List", val |-> ls]
Object(obj) == [kind |-> "Object", val |-> obj]

Ok(v) == [ok |-> TRUE, val |-> v]
Err(e) == [ok |-> FALSE, err |-> e]

\* QueryError variants
VarNotDefined(var_name) == [error |-> "VarNotDefined", var_name |-> var_name]
ExpectedType(expect, actual) ==
    [error |-> "ExpectedType", expect |-> expect, actual |-> actual]
RequiredDirectiveArgs(directive) ==
    [error |-> "RequiredDirectiveArgs", directive |-> directive,
     arg_name |-> "if", arg_type |-> "Boolean!"]
UnknownDirective(name) == [error |-> "UnknownDirective", name |-> name]

\* all sequences over S of length at most n
SeqUpTo(S, n) == UNION { [1..k -> S] : k \in 0..n }

\* all maps from a subset of the keys K to S (BTreeMap<String, Value>)
MapsOver(K, S) == UNION { [D -> S] : D \in SUBSET K }

\* the keys of a BTreeMap, in the order its iterators visit them
KeyOrder == <<"a", "b", "if", "v", "w", "x">>
RECURSIVE SortedKeysFrom(_, _)
SortedKeysFrom(D, i) ==
    IF i > Len(KeyOrder) THEN <<>>
    ELSE (IF KeyOrder[i] \in D THEN <<KeyOrder[i]>> ELSE <<>>)
            \o SortedKeysFrom(D, i + 1)
SortedKeys(obj) == SortedKeysFrom(DOMAIN obj, 1)

(***************************************************************************)
(* Variables of the operation                                              *)
(***************************************************************************)

\* variable_definitions.iter().find(|def| def.name == name)
RECURSIVE FindDef(_, _)
FindDef(defs, name) ==
    IF defs = <<>> THEN None
    ELSE IF Head(defs).name = name THEN Some(Head(defs))
    ELSE FindDef(Tail(defs), name)

\* var_value
VarValueBundleFirst(vs, defs, name) ==
    LET def == FindDef(defs, name)
    IN  IF name \in DOMAIN vs.val THEN Ok(vs.val[name])
        ELSE IF IsSome(def) /\ IsSome(Unwrap(def).default_value)
             THEN Ok(Unwrap(Unwrap(def).default_value))
        ELSE Err(VarNotDefined(name))
VarValueDefaultFirst(vs, defs, name) ==
    LET def == FindDef(defs, name)
    IN  IF IsSome(def) /\ IsSome(Unwrap(def).default_value)
        THEN Ok(Unwrap(Unwrap(def).default_value))
        ELSE IF IsSome(def) /\ Unwrap(def).name \in DOMAIN vs.val
             THEN Ok(vs.val[Unwrap(def).name])
        ELSE Err(VarNotDefined(name))
VarValue(vs, defs, name) ==
    LET def == FindDef(defs, name)
    IN  IF IsSome(def)
        THEN IF Unwrap(def).name \in DOMAIN vs.val
             THEN Ok(vs.val[Unwrap(def).name])
             ELSE IF IsSome(Unwrap(def).default_value)
                  THEN Ok(Unwrap(Unwrap(def).default_value))
                  ELSE Err(VarNotDefined(name))
        ELSE Err(VarNotDefined(name))

\* the loop of resolve_input_value over the elements of a list: replaces
\* the elements that are a Variable, stops at the first that fails
RECURSIVE ResolveElements(_, _, _)
ResolveElements(vs, defs, ls) ==
    IF ls = <<>> THEN Ok(<<>>)
    ELSE LET head == IF Head(ls).kind = "Variable"
                     THEN VarValue(vs, defs, Head(ls).val)
                     ELSE Ok(Head(ls))
         IN  IF ~head.ok THEN head
             ELSE LET rest == ResolveElements(vs, defs, Tail(ls))
                  IN  IF ~rest.ok THEN rest
                      ELSE Ok(<<head.val>> \o rest.val)

\* the loop of resolve_input_value over obj.values_mut(), in key order
RECURSIVE ResolveEntries(_, _, _, _)
ResolveEntries(vs, defs, obj, keys) ==
    IF keys = <<>> THEN Ok(obj)
    ELSE LET k == Head(keys)
             head == IF obj[k].kind = "Variable"
                     THEN VarValue(vs, defs, obj[k].val)
                     ELSE Ok(obj[k])
         IN  IF ~head.ok THEN head
             ELSE ResolveEntries(vs, defs, [obj EXCEPT ![k] = head.val], Tail(keys))

\* resolve_input_value
ResolveInputValueTopOnly(vs, defs, value) ==
    IF value.kind = "Variable" THEN VarValue(vs, defs, value.val) ELSE Ok(value)
ResolveInputValue(vs, defs, value) ==
    CASE value.kind = "Variable" -> VarValue(vs, defs, value.val)
      [] value.kind = "List" ->
            LET r == ResolveElements(vs, defs, value.val)
            IN  IF r.ok THEN Ok(List(r.val)) ELSE r
      [] value.kind = "Object" ->
            LET r == ResolveEntries(vs, defs, value.val, SortedKeys(value.val))
            IN  IF r.ok THEN Ok(Object(r.val)) ELSE r
      [] OTHER -> Ok(value)

\* <bool as InputValueType>::parse
BoolParse(value) == IF value.kind = "Boolean" THEN Some(value.val) ELSE None

\* the branch conditions of is_skip: `if res` for @skip, `if !res` for @include
SkipNever(res) == FALSE
SkipTaken(res) == res
IncludeAsSkip(res) == res
IncludeOmits(res) == ~res

\* is_skip
RECURSIVE IsSkip(_, _, _)
IsSkip(vs, defs, directives) ==
    IF directives = <<>> THEN Ok(FALSE)
    ELSE LET directive == Head(directives)
             known == directive.name \in {"skip", "include"}
             value == ResolveInputValue(vs, defs, directive.arguments["if"])
             res == BoolParse(value.val)
         IN  IF ~known THEN Err(UnknownDirective(directive.name))
             ELSE IF "if" \notin DOMAIN directive.arguments
             THEN Err(RequiredDirectiveArgs("@" \o directive.name))
             ELSE IF ~value.ok THEN value
             ELSE IF ~IsSome(res) THEN Err(ExpectedType("Boolean!", value.val))
             ELSE IF /\ directive.name = "skip"
                     /\ SkipTaken(Unwrap(res)) THEN Ok(TRUE)
             ELSE IF /\ directive.name = "include"
                     /\ IncludeOmits(Unwrap(res)) THEN Ok(TRUE)
             ELSE IsSkip(vs, defs, Tail(directives))

\* i64::to_string
Digits == <<"0", "1", "2", "3", "4", "5", "6", "7", "8", "9">>
RECURSIVE NatToString(_)
NatToString(n) ==
    IF n < 10 THEN Digits[n + 1]
    ELSE NatToString(n \div 10) \o Digits[(n % 10) + 1]
IntToString(n) == IF n < 0 THEN "-" \o NatToString(-n) ELSE NatToString(n)

\* <ID as ScalarType>::parse
IDParse(value) ==
    CASE value.kind = "Int" -> Some(IntToString(value.val))
      [] value.kind = "String" -> Some(value.val)
      [] OTHER -> None

\* InputValueType::parse(&value).ok_or_else(ExpectedType) as param_value and
\* is_skip apply it; `handed` records the value parse was given
Coerce(value) ==
    LET res == IDParse(value)
    IN  [handed |-> Some(value),
         result |-> IF IsSome(res) THEN Ok(Unwrap(res))
                    ELSE Err(ExpectedType("ID!", value))]

\* param_value::<ID, _>(name, default) on a field with these arguments
ParamValue(vs, defs, arguments, name, default) ==
    IF name \in DOMAIN arguments
    THEN LET value == ResolveInputValue(vs, defs, arguments[name])
         IN  IF ~value.ok THEN [handed |-> None, result |-> value]
             ELSE Coerce(value.val)
    ELSE Coerce(default)

(***************************************************************************)
(* The inputs of the model                                                 *)
(***************************************************************************)
MaxDirs == 2       \* directives on one selection
MaxLen == 2        \* elements of a list literal

\* the variables of the model's operations: v and w may be declared and
\* bound, u never is
BundleMaps ==
    { m \in MapsOver({"v", "w"}, {Boolean(TRUE), Boolean(FALSE), IntValue(7)}) :
         "w" \in DOMAIN m => m["w"] = Boolean(FALSE) }
DefLists ==
    { defs \in SeqUpTo([name : {"v", "w"},
                        default_value : {None, Some(Boolean(TRUE))}], 2) :
         \A i, j \in 1..Len(defs) : i < j => defs[i].name = "v" /\ defs[j].name = "w" }

\* the `if` arguments of the model's directives
IfValues == { Boolean(TRUE), Boolean(FALSE), Variable("v"), Variable("w"), IntValue(1) }
Directives ==
    { [name |-> n, arguments |-> a] :
         n \in {"skip", "include"},
         a \in {<<>>} \cup {[k \in {"if"} |-> v] : v \in IfValues} }
    \cup { [name |-> "deprecated", arguments |-> <<>>] }

\* the argument values of the model's fields, nested up to two levels
ArgLeaves == { IntValue(1), Variable("v"), Variable("u") }
ArgLevel1 ==
    { List(ls) : ls \in SeqUpTo(ArgLeaves, MaxLen) }
    \cup { Object(obj) : obj \in MapsOver({"a", "b"}, ArgLeaves) }
ArgNested ==
    ArgLeaves \cup { List(<<>>), List(<<Variable("v")>>),
                      List(<<Variable("u"), IntValue(1)>>),
                      Object([k \in {"a"} |-> Variable("v")]) }
ArgLevel2 ==
    { List(ls) : ls \in SeqUpTo(ArgNested, MaxLen) }
    \cup { Object(obj) : obj \in MapsOver({"a", "b"}, ArgNested) }
ArgValues == ArgLeaves \cup {String("s"), Null} \cup ArgLevel1 \cup ArgLevel2

(***************************************************************************)
(* Variable resolution, directives and arguments as a state machine: the   *)
(* environment of one request, and one call on it                          *)
(***************************************************************************)
InitVars ==
    /\ ResolveIdle
    /\ EnvIdle
    /\ variables \in { Object(m) : m \in BundleMaps }
    /\ variable_definitions \in DefLists
    /\ op = NoOp

IsSkipCall(directives) ==
    /\ op = NoOp
    /\ op' = [name |-> "is_skip", directives |-> directives,
              result |-> IsSkip(variables, variable_definitions, directives)]
    /\ UNCHANGED <<counter, ctxs, calls, allocated, variables, variable_definitions, data, visitor>>

VarValueCall(name) ==
    /\ op = NoOp
    /\ op' = [name |-> "var_value", var_name |-> name,
              result |-> VarValue(variables, variable_definitions, name)]
    /\ UNCHANGED <<counter, ctxs, calls, allocated, variables, variable_definitions, data, visitor>>

ParamValueCall(arguments, name, default) ==
    /\ op = NoOp
    /\ LET r == ParamValue(variables, variable_definitions, arguments, name, default)
       IN  op' = [name |-> "param_value", arguments |-> arguments, arg |-> name,
                  default |-> default, handed |-> r.handed, result |-> r.result]
    /\ UNCHANGED <<counter, ctxs, calls, allocated, variables, variable_definitions, data, visitor>>

NextVars ==
    \/ \E directives \in SeqUpTo(Directives, MaxDirs) : IsSkipCall(directives)
    \/ \E name \in {"v", "w", "u"} : VarValueCall(name)
    \/ \E value \in ArgValues, default \in {Null, String("d")} :
          ParamValueCall([k \in {"x"} |-> value], "x", default)
    \/ \E default \in {Null, String("d"), IntValue(12)} :
          ParamValueCall(<<>>, "x", default)

SpecVars == InitVars /\ [][NextVars]_vars

(***************************************************************************)
(* Variables::set_upload                                                   *)
(***************************************************************************)
MaxSegs == 3       \* segments of a var_path after `variables`

\* s.parse::<i32>() on the segments of the model's paths
ParseI32(s) ==
    CASE s = "0" -> Ok(0)
      [] s = "1" -> Ok(1)
      [] s = "2" -> Ok(2)
      [] s = "-1" -> Ok(-1)
      [] OTHER -> Err("ParseIntError")

\* ls.get_mut(idx as usize): the position of the element, if there is one. A
\* negative idx is cast to a usize above every i32, past the end of any list
GetMut(ls, idx) ==
    IF idx >= 0 /\ idx < Len(ls) THEN Some(idx + 1) ELSE None

\* file_string
FileStringNoContentType(filename, content_type, path) ==
    "file:" \o filename \o "|" \o path
FileString(filename, content_type, path) ==
    IF IsSome(content_type)
    THEN "file:" \o filename \o ":" \o Unwrap(content_type) \o "|" \o path
    ELSE "file:" \o filename \o "|" \o path

\* the while loop of set_upload from `current` on, with the segments that
\* are left; gives the value `current` refers to when the function returns
RECURSIVE UploadInto(_, _, _)
UploadInto(current, segs, file) ==
    IF segs = <<>> THEN current
    ELSE LET s == Head(segs)
             has_next == Tail(segs) # <<>>
             idx == ParseI32(s)
         IN  IF idx.ok
             THEN IF current.kind = "List"
                  THEN LET at == GetMut(current.val, idx.val)
                       IN  IF ~IsSome(at) THEN current
                           ELSE IF ~has_next
                           THEN List([current.val EXCEPT ![Unwrap(at)] = String(file)])
                           ELSE List([current.val EXCEPT ![Unwrap(at)] =
                                        UploadInto(current.val[Unwrap(at)], Tail(segs), file)])
                  ELSE UploadInto(current, Tail(segs), file)
             ELSE IF current.kind = "Object"
                  THEN IF s \notin DOMAIN current.val THEN current
                       ELSE IF ~has_next
                       THEN Object([current.val EXCEPT ![s] = String(file)])
                       ELSE Object([current.val EXCEPT ![s] =
                                      UploadInto(current.val[s], Tail(segs), file)])
                  ELSE UploadInto(current, Tail(segs), file)

\* set_upload; var_path is given as the segments var_path.split('.') yields
SetUpload(vs, var_path, filename, content_type, path) ==
    IF Head(var_path) # "variables" THEN vs
    ELSE UploadInto(vs, Tail(var_path), FileString(filename, content_type, path))

\* the variables of the model's upload requests
UploadLeaves == { Null, IntValue(1) }
UploadNested ==
    UploadLeaves \cup { List(<<Null>>), Object([k \in {"a"} |-> Null]) }
UploadValues ==
    UploadLeaves
    \cup { List(ls) : ls \in SeqUpTo(UploadNested, MaxLen) }
    \cup { Object(obj) : obj \in MapsOver({"a"}, UploadNested) }
UploadVariables ==
    { Object(obj) : obj \in { m \in MapsOver({"a", "b"}, UploadValues) :
                                 "b" \in DOMAIN m => m["b"] \in {Null, List(<<Null>>)} } }

Segments == {"a", "b", "0", "1", "-1"}
VarPaths ==
    { <<"variables">> \o segs : segs \in SeqUpTo(Segments, MaxSegs) }
    \cup { <<"vars">> \o segs : segs \in SeqUpTo(Segments, 1) }

InitUpload ==
    /\ ResolveIdle
    /\ EnvIdle
    /\ variables \in UploadVariables
    /\ variable_definitions = <<>>
    /\ op = NoOp

SetUploadCall(var_path, filename, content_type, path) ==
    /\ op = NoOp
    /\ variables' = SetUpload(variables, var_path, filename, content_type, path)
    /\ op' = [name |-> "set_upload", var_path |-> var_path, filename |-> filename,
              content_type |-> content_type, path |-> path, before |-> variables]
    /\ UNCHANGED <<counter, ctxs, calls, allocated, variable_definitions, data, visitor>>

NextUpload ==
    \E var_path \in VarPaths, content_type \in {None, Some("text/plain")} :
       SetUploadCall(var_path, "a.txt", content_type, "/tmp/upload0")

SpecUpload == InitUpload /\ [][NextUpload]_vars

(***************************************************************************)
(* serde_json::Value and Variables::parse_from_json                        *)
(***************************************************************************)

\* serde_json::Number is PosInt(u64), NegInt(i64, always negative) or
\* Float(f64).  The 64 bits of an integer are kept as four 16-bit limbs, the
\* most significant first; NegInt holds the two's complement bit pattern.
JsonNull == [kind |-> "Null"]
JsonBool(b) == [kind |-> "Bool", val |-> b]
JsonPosInt(limbs) == [kind |-> "Number", n |-> "PosInt", val |-> limbs]
JsonNegInt(limbs) == [kind |-> "Number", n |-> "NegInt", val |-> limbs]
JsonFloat(f) == [kind |-> "Number", n |-> "Float", val |-> f]
JsonString(s) == [kind |-> "String", val |-> s]
JsonArray(ls) == [kind |-> "Array", val |-> ls]
JsonObject(obj) == [kind |-> "Object", val |-> obj]

FloatValue(f) == [kind |-> "Float", val |-> f]

\* a call that unwinds (Option::unwrap on None) instead of returning
Panicked == [kind |-> "Panic"]
Panic == [ok |-> FALSE, panic |-> TRUE]

\* Number::is_f64
IsF64(number) == number.n = "Float"

\* Number::as_i64: None for a PosInt above i64::MAX
AsI64(number) ==
    IF number.n = "PosInt" /\ number.val[1] >= 32768 THEN None
    ELSE Some(number.val)

\* `as i32` on an i64: the low 32 bits, read as two's complement
AsI32(limbs) ==
    (IF limbs[3] >= 32768 THEN limbs[3] - 65536 ELSE limbs[3]) * 65536 + limbs[4]

\* json_value_to_gql_value, the unwinding of an unwrap carried outwards
RECURSIVE JsonValueToGqlValue(_)
JsonValueToGqlValue(value) ==
    CASE value.kind = "Null" -> Null
      [] value.kind = "Bool" -> Boolean(value.val)
      [] value.kind = "Number" /\ IsF64(value) -> FloatValue(value.val)
      [] value.kind = "Number" /\ ~IsF64(value) ->
            IF IsSome(AsI64(value)) THEN IntValue(AsI32(Unwrap(AsI64(value))))
            ELSE Panicked
      [] value.kind = "String" -> String(value.val)
      [] value.kind = "Array" ->
            LET ls == [i \in DOMAIN value.val |-> JsonValueToGqlValue(value.val[i])]
            IN  IF \E i \in DOMAIN ls : ls[i] = Panicked THEN Panicked ELSE List(ls)
      [] value.kind = "Object" ->
            LET obj == [k \in DOMAIN value.val |-> JsonValueToGqlValue(value.val[k])]
            IN  IF \E k \in DOMAIN obj : obj[k] = Panicked THEN Panicked
                ELSE Object(obj)

\* Variables::default
VariablesDefault == Object(<<>>)

\* Variables::parse_from_json
ParseFromJson(value) ==
    LET gql == JsonValueToGqlValue(value)
    IN  IF gql = Panicked THEN Panic
        ELSE IF gql.kind = "Object" THEN Ok(gql)
        ELSE Ok(VariablesDefault)

\* the JSON values of the model: the limbs sit on both sides of every
\* boundary of the 16-, 32- and 64-bit ranges
Limbs == {0, 1, 32767, 32768, 65535}
JsonIntegers ==
    { JsonPosInt(limbs) : limbs \in [1..4 -> Limbs] }
        \cup { JsonNegInt(limbs) :
                 limbs \in { l \in [1..4 -> Limbs] : l[1] >= 32768 } }
JsonLeaves ==
    { JsonNull, JsonBool(TRUE), JsonFloat("1.5"), JsonString("s"),
      JsonPosInt(<<0, 0, 0, 7>>), JsonPosInt(<<0, 1, 0, 1>>),
      JsonPosInt(<<65535, 0, 0, 0>>) }
JsonValues ==
    { JsonObject([n \in {"a"} |-> j]) : j \in JsonIntegers }
        \cup JsonLeaves
        \cup { JsonArray(<<j>>) : j \in JsonLeaves }
        \cup { JsonObject(<<>>) }
        \cup { JsonObject([n \in {"a", "b"} |-> IF n = "a" THEN JsonArray(<<j>>)
                                                ELSE JsonObject([m \in {"a"} |-> j])]) :
                 j \in JsonLeaves }

VarsIdle ==
    /\ variables = [kind |-> "Object", val |-> <<>>]
    /\ variable_definitions = <<>>
    /\ op = NoOp

InitResolve == ResolveInit /\ VarsIdle /\ EnvIdle

NextResolve ==
    \/ \E c \in 1..MaxCtx, field \in Fields : CallWithField(c, field)
    \/ \E c \in 1..MaxCtx, idx \in Indexes : CallWithIndex(c, idx)
    \/ \E call \in calls : FetchAddStep(call)
    \/ \E call \in calls : ReturnContext(call)
    \/ \E c \in 1..MaxCtx : WithSelectionSet(c)

SpecResolve == InitResolve /\ [][NextResolve]_vars

\* one request: its variables arrive as JSON and are parsed
InitJson == ResolveIdle /\ VarsIdle /\ EnvIdle

ParseFromJsonCall(value) ==
    /\ op = NoOp
    /\ LET result == ParseFromJson(value)
       IN  /\ variables' = IF result.ok THEN result.val ELSE variables
           /\ op' = [name |-> "parse_from_json", value |-> value, result |-> result]
    /\ UNCHANGED <<counter, ctxs, calls, allocated, variable_definitions, data, visitor>>

NextJson == \E value \in JsonValues : ParseFromJsonCall(value)

SpecJson == InitJson /\ [][NextJson]_vars

(***************************************************************************)
(* Resolve ids: claims C1 and C2                                           *)
(***************************************************************************)

\* contexts whose resolve id came from get_child_resolve_id
Allocating == {"with_field", "with_index"}

\* C1: under every interleaving of the with_field and with_index calls of
\* concurrently running sibling resolutions on one counter that starts at 0,
\* the ids handed out are pairwise distinct and distinct from the root's 0,
\* two contexts made by these calls never share a `current`, and the
\* `parent` of every non-root id is the root's 0 or a `current` that was
\* handed out before the id's own `current`.
C1_ResolveIdsUnique ==
    /\ \A i, j \in 1..Len(allocated) : i # j => allocated[i] # allocated[j]
    /\ \A i \in 1..Len(allocated) : allocated[i] # RootId.current
    /\ \A c, d \in 1..Len(ctxs) :
          /\ c # d
          /\ ctxs[c].made_by \in Allocating
          /\ ctxs[d].made_by \in Allocating
          => ctxs[c].resolve_id.current # ctxs[d].resolve_id.current
    /\ \A c \in 1..Len(ctxs) :
          IsSome(ctxs[c].resolve_id.parent) =>
             LET p == Unwrap(ctxs[c].resolve_id.parent)
                 cur == ctxs[c].resolve_id.current
             IN  \E j \in 1..Len(allocated) :
                    /\ allocated[j] = cur
                    /\ \/ p = RootId.current
                       \/ \E i \in 1..(j - 1) : allocated[i] = p

\* two sibling calls on one context, itself a child of the root, have both
\* done their fetch_add before either has returned
C1_Witness ==
    \E k, l \in calls :
       /\ k # l /\ k.on = l.on /\ k.pc = "build" /\ l.pc = "build"
       /\ IsSome(ctxs[k.on].resolve_id.parent)
       /\ Len(allocated) = 3

\* C2: the context of create_context has resolve id {None, 0}; a context
\* returned by with_field or with_index has as `parent` the `current` of the
\* context the call was made on, and a `current` that the counter handed out
\* and that no context built before it carries.
C2_ParentIsCallersCurrent ==
    /\ ctxs[1].made_by = "create_context"
    /\ ctxs[1].resolve_id = [parent |-> None, current |-> 0]
    /\ \A c \in 1..Len(ctxs) :
          ctxs[c].made_by \in Allocating =>
             /\ ctxs[c].resolve_id.parent
                   = Some(ctxs[ctxs[c].made_on].resolve_id.current)
             /\ \E j \in 1..Len(allocated) : allocated[j] = ctxs[c].resolve_id.current
             /\ \A d \in 1..(c - 1) :
                   ctxs[d].resolve_id.current # ctxs[c].resolve_id.current

\* with_index was called on a context that is not the root, and with_field on
\* a context that with_selection_set returned
C2_Witness ==
    /\ \E c \in 1..Len(ctxs) :
          ctxs[c].made_by = "with_index" /\ ctxs[c].made_on # 1
    /\ \E c \in 1..Len(ctxs) :
          /\ ctxs[c].made_by = "with_field"
          /\ ctxs[ctxs[c].made_on].made_by # "create_context"

(***************************************************************************)
(* Directives: claims C3, C4 and C5                                        *)
(***************************************************************************)

\* what the `if` argument of a directive resolves to in this request
IfResolved(directive) ==
    ResolveInputValue(variables, variable_definitions, directive.arguments["if"])

\* a @skip or @include with an `if` argument that resolves to a Boolean
WellFormed(directive) ==
    /\ directive.name \in {"skip", "include"}
    /\ "if" \in DOMAIN directive.arguments
    /\ IfResolved(directive).ok
    /\ IfResolved(directive).val.kind = "Boolean"

\* @skip(if: true) or @include(if: false), after resolution
Omits(directive) ==
    \/ directive.name = "skip" /\ IfResolved(directive).val.val = TRUE
    \/ directive.name = "include" /\ IfResolved(directive).val.val = FALSE

\* C3: on a list made only of well-formed @skip and @include directives,
\* is_skip returns Ok(true) if the list holds a @skip whose `if` is true or an
\* @include whose `if` is false, and Ok(false) otherwise.
C3_IsSkipIffOmittingDirective ==
    ( /\ op.name = "is_skip"
      /\ \A i \in 1..Len(op.directives) : WellFormed(op.directives[i]) )
    => op.result = Ok(\E i \in 1..Len(op.directives) : Omits(op.directives[i]))

\* is_skip went past a first directive that does not omit the field, one of
\* the two `if` given through a variable, and the second omits it
C3_Witness ==
    /\ op.name = "is_skip"
    /\ Len(op.directives) = 2
    /\ \A i \in 1..2 : WellFormed(op.directives[i])
    /\ ~Omits(op.directives[1])
    /\ Omits(op.directives[2])
    /\ op.directives[1].name # op.directives[2].name
    /\ \E i \in 1..2 : op.directives[i].arguments["if"].kind = "Variable"
    /\ op.result = Ok(TRUE)

\* a directive is_skip has to reject: an unknown name, no `if` argument, or an
\* `if` that does not coerce to Boolean
Malformed(directive) ==
    \/ directive.name \notin {"skip", "include"}
    \/ "if" \notin DOMAIN directive.arguments
    \/ ~IfResolved(directive).ok
    \/ IfResolved(directive).val.kind # "Boolean"

\* C4: is_skip returns an error, never Ok, on every list that holds a
\* malformed directive, at whatever position and next to whatever directives.
C4_MalformedAlwaysFails ==
    ( /\ op.name = "is_skip"
      /\ \E i \in 1..Len(op.directives) : Malformed(op.directives[i]) )
    => ~op.result.ok

\* the `if` values that resolve to the Boolean b in this request
ResolvingTo(b) ==
    { v \in IfValues :
         LET r == ResolveInputValue(variables, variable_definitions, v)
         IN  r.ok /\ r.val = Boolean(b) }

\* C5: is_skip on the single directive @skip(if: x) returns what is_skip
\* returns on the single directive @include(if: not x), for x a Boolean
\* literal or a variable that resolves to a Boolean.
C5_SkipIncludeDuality ==
    ( /\ op.name = "is_skip"
      /\ Len(op.directives) = 1
      /\ op.directives[1].name = "skip"
      /\ WellFormed(op.directives[1]) )
    => \A v \in ResolvingTo(~IfResolved(op.directives[1]).val.val) :
          IsSkip(variables, variable_definitions,
                 <<[name |-> "include", arguments |-> [k \in {"if"} |-> v]]>>)
             = op.result

\* @skip(if: $v) omitted the field, and $w resolves to false
C5_Witness ==
    /\ op.name = "is_skip"
    /\ op.directives = <<[name |-> "skip", arguments |-> [k \in {"if"} |-> Variable("v")]]>>
    /\ op.result = Ok(TRUE)
    /\ Variable("w") \in ResolvingTo(FALSE)

(***************************************************************************)
(* Variables: claims C6, C7 and C8                                         *)
(***************************************************************************)

Bundle == variables.val
Declared(name) ==
    \E i \in 1..Len(variable_definitions) : variable_definitions[i].name = name
\* the defaults the operation declares for name
DeclaredDefaults(name) ==
    { Unwrap(variable_definitions[i].default_value) :
         i \in { j \in 1..Len(variable_definitions) :
                    /\ variable_definitions[j].name = name
                    /\ IsSome(variable_definitions[j].default_value) } }

\* C6: for a variable the operation declares, var_value returns the value
\* bound in `variables` when there is one, also when a default is declared;
\* the declared default when `variables` has no entry; and VarNotDefined when
\* there is neither an entry nor a default.
C6_VariableShadowsDefault ==
    ( op.name = "var_value" /\ Declared(op.var_name) )
    => /\ op.var_name \in DOMAIN Bundle => op.result = Ok(Bundle[op.var_name])
       /\ ( /\ op.var_name \notin DOMAIN Bundle
            /\ DeclaredDefaults(op.var_name) # {} )
          => op.result.ok /\ op.result.val \in DeclaredDefaults(op.var_name)
       /\ ( /\ op.var_name \notin DOMAIN Bundle
            /\ DeclaredDefaults(op.var_name) = {} )
          => op.result = Err(VarNotDefined(op.var_name))

\* var_value returned the bound value of a variable whose declared default
\* is another value
C6_Witness ==
    /\ op.name = "var_value"
    /\ op.var_name \in DOMAIN Bundle
    /\ DeclaredDefaults(op.var_name) # {}
    /\ Bundle[op.var_name] \notin DeclaredDefaults(op.var_name)
    /\ op.result = Ok(Bundle[op.var_name])

\* the calls that resolve Variable(name): var_value itself, and param_value
\* on an argument that is Variable(name)
ResolvesVariable(name) ==
    \/ op.name = "var_value" /\ op.var_name = name
    \/ /\ op.name = "param_value"
       /\ op.arg \in DOMAIN op.arguments
       /\ op.arguments[op.arg] = Variable(name)

\* what the resolution of the variable gave: var_value's result, or the value
\* param_value handed on
Resolution ==
    IF op.name = "var_value" THEN op.result
    ELSE IF IsSome(op.handed) THEN Ok(Unwrap(op.handed)) ELSE op.result

RECURSIVE HasVariable(_)
HasVariable(value) ==
    CASE value.kind = "Variable" -> TRUE
      [] value.kind \in {"List", "Object"} ->
            \E k \in DOMAIN value.val : HasVariable(value.val[k])
      [] OTHER -> FALSE

\* C8: when variable resolution succeeds, the value param_value hands to
\* input coercion holds no Variable at any depth.
C8_NoVariableAfterResolution ==
    ( /\ op.name = "param_value"
      /\ op.arg \in DOMAIN op.arguments
      /\ IsSome(op.handed) )
    => ~HasVariable(Unwrap(op.handed))

(***************************************************************************)
(* Uploads: claims C9 and C10                                              *)
(***************************************************************************)

\* an integer segment, by its spelling
IntSegments == { "0", "1", "2", "-1" }
IndexOf(s) == CASE s = "0" -> 0 [] s = "1" -> 1 [] s = "2" -> 2 [] s = "-1" -> -1

\* whether seg leads from value to a child: an integer segment indexes an
\* existing element of a List, an identifier names an existing key of an Object
Leads(value, seg) ==
    IF seg \in IntSegments
    THEN value.kind = "List" /\ IndexOf(seg) + 1 \in DOMAIN value.val
    ELSE value.kind = "Object" /\ seg \in DOMAIN value.val
Child(value, seg) ==
    IF seg \in IntSegments THEN value.val[IndexOf(seg) + 1] ELSE value.val[seg]

RECURSIVE Traversable(_, _)
Traversable(value, segs) ==
    /\ segs # <<>>
    /\ Leads(value, Head(segs))
    /\ Tail(segs) # <<>> => Traversable(Child(value, Head(segs)), Tail(segs))

\* value with the position segs leads to replaced by new, all else kept
RECURSIVE ReplacedAt(_, _, _)
ReplacedAt(value, segs, new) ==
    IF segs = <<>> THEN new
    ELSE LET k == IF Head(segs) \in IntSegments THEN IndexOf(Head(segs)) + 1
                  ELSE Head(segs)
         IN  [value EXCEPT !.val[k] = ReplacedAt(value.val[k], Tail(segs), new)]

\* "file:<filename>[:<content-type>]|<local-path>"
Sentinel ==
    String("file:" \o op.filename
              \o (IF op.content_type = None THEN "" ELSE ":" \o op.content_type[1])
              \o "|" \o op.path)

\* C9: set_upload with a path `variables.<seg>(.<seg>)*` that can be
\* traversed replaces the value at exactly that path by the string
\* file:<filename>[:<content-type>]|<local-path> and leaves every other
\* position of the variables as it was.
C9_UploadReplacesAtPath ==
    ( /\ op.name = "set_upload"
      /\ Head(op.var_path) = "variables"
      /\ Traversable(op.before, Tail(op.var_path)) )
    => variables = ReplacedAt(op.before, Tail(op.var_path), Sentinel)

\* a file with a content type was put three segments deep, through an object
\* and a list, next to an element that is kept
C9_Witness ==
    /\ op.name = "set_upload"
    /\ op.var_path = <<"variables", "a", "1", "a">>
    /\ Traversable(op.before, Tail(op.var_path))
    /\ op.content_type # None
    /\ variables.val["a"].val[2].val["a"] = String("file:a.txt:text/plain|/tmp/upload0")
    /\ variables.val["a"].val[1] = IntValue(1)
    /\ "b" \in DOMAIN variables.val

\* C10: set_upload leaves the variables unchanged whenever the path cannot
\* be traversed: the first segment is not `variables`, or some segment does
\* not lead on from the value it meets (wrong kind of value, index past the
\* end, key that is missing).
C10_UntraversablePathChangesNothing ==
    ( /\ op.name = "set_upload"
      /\ ~( /\ Head(op.var_path) = "variables"
            /\ Traversable(op.before, Tail(op.var_path)) ) )
    => variables = op.before

(***************************************************************************)
(* Validation: the rule OverlappingFieldsCanBeMerged                       *)
(***************************************************************************)
MaxItems == 3      \* selections written in the selection set that is entered
MaxDepth == 5      \* calls of find that are on the stack at the same time

\* f64::NAN, which `==` on f64 holds equal to nothing, itself included
NaN == <<"N", "a", "N">>

\* PartialEq for Value (Spanned compares its node only)
RECURSIVE ValueEq(_, _)
\* the comparison of two objects without the comparison of their lengths
ValueEqSubset(a, b) ==
    IF a.kind # b.kind THEN FALSE
    ELSE CASE a.kind = "Null" -> TRUE
           [] a.kind = "Float" -> a.val # NaN /\ a.val = b.val
           [] a.kind = "List" ->
                /\ Len(a.val) = Len(b.val)
                /\ \A i \in 1..Len(a.val) : ValueEq(a.val[i], b.val[i])
           [] a.kind = "Object" ->
                \A key \in DOMAIN a.val :
                   key \in DOMAIN b.val /\ ValueEq(a.val[key], b.val[key])
           [] OTHER -> a.val = b.val
ValueEq(a, b) ==
    IF a.kind # b.kind THEN FALSE
    ELSE CASE a.kind = "Null" -> TRUE
           [] a.kind = "Float" -> a.val # NaN /\ a.val = b.val
           [] a.kind = "List" ->
                /\ Len(a.val) = Len(b.val)
                /\ \A i \in 1..Len(a.val) : ValueEq(a.val[i], b.val[i])
           [] a.kind = "Object" ->
                /\ Cardinality(DOMAIN a.val) = Cardinality(DOMAIN b.val)
                /\ \A key \in DOMAIN a.val :
                      key \in DOMAIN b.val /\ ValueEq(a.val[key], b.val[key])
           [] OTHER -> a.val = b.val

Pos(line, column) == [line |-> line, column |-> column]

\* Selection::Field, Selection::InlineFragment, Selection::FragmentSpread
Field(alias, name, arguments, position) ==
    [kind |-> "Field", alias |-> alias, name |-> name, arguments |-> arguments,
     position |-> position]
InlineFragment(selection_set) ==
    [kind |-> "InlineFragment", selection_set |-> selection_set]
FragmentSpread(fragment_name) ==
    [kind |-> "FragmentSpread", fragment_name |-> fragment_name]

\* the response key find computes for a field
OutputNameNoAlias(field) == field.name
OutputName(field) ==
    IF IsSome(field.alias) THEN Unwrap(field.alias) ELSE field.name

\* VisitorContext::report_error
RuleError(locations, message) == [locations |-> locations, message |-> message]

\* the loop of add_output over prev_field.arguments, in the map's key order
RECURSIVE ArgumentErrors(_, _, _)
ArgumentErrors(names, prev_field, field) ==
    IF names = <<>> THEN <<>>
    ELSE LET name == Head(names)
             same == /\ name \in DOMAIN field.arguments
                     /\ ValueEq(prev_field.arguments[name], field.arguments[name])
         IN  (IF same THEN <<>>
              ELSE <<RuleError(<<prev_field.position, field.position>>,
                               "differing arguments")>>)
                \o ArgumentErrors(Tail(names), prev_field, field)

\* FindConflicts::add_output: the outputs and the errors it leaves
AddOutput(outputs, errors, name, field) ==
    IF name \in DOMAIN outputs
    THEN LET prev_field == outputs[name]
             locations == <<prev_field.position, field.position>>
         IN  [outputs |-> outputs,
              errors |->
                 errors
                 \o (IF prev_field.name # field.name
                     THEN <<RuleError(locations, "different fields")>> ELSE <<>>)
                 \o (IF Cardinality(DOMAIN prev_field.arguments)
                          # Cardinality(DOMAIN field.arguments)
                     THEN <<RuleError(locations, "differing arguments")>> ELSE <<>>)
                 \o ArgumentErrors(SortedKeys(prev_field.arguments), prev_field, field)]
    ELSE [outputs |-> (name :> field) @@ outputs, errors |-> errors]

\* VisitorContext::fragment
FragmentUnknown(fragments, name) == None
Fragment(fragments, name) ==
    IF name \in DOMAIN fragments THEN Some(fragments[name]) ELSE None

\* the fields of the model's documents: alias, name and arguments
FieldShapes ==
    { [alias |-> None, name |-> "a", arguments |-> <<>>],
      [alias |-> Some("x"), name |-> "a", arguments |-> <<>>],
      [alias |-> Some("x"), name |-> "b", arguments |-> <<>>],
      [alias |-> Some("x"), name |-> "a", arguments |-> ("v" :> IntValue(1))],
      [alias |-> Some("x"), name |-> "a", arguments |-> ("v" :> IntValue(2))],
      [alias |-> Some("x"), name |-> "a", arguments |-> ("w" :> IntValue(1))] }
InnerShapes ==
    { [alias |-> Some("x"), name |-> "a", arguments |-> <<>>],
      [alias |-> Some("x"), name |-> "b", arguments |-> <<>>] }
FieldAt(shape, position) == Field(shape.alias, shape.name, shape.arguments, position)

\* the fragment definitions of the document: F spreads G, C spreads itself,
\* and no fragment is called H
DocFragments ==
    ("F" :> <<FieldAt([alias |-> Some("x"), name |-> "b", arguments |-> <<>>], Pos(10, 1)),
              FragmentSpread("G")>>)
    @@ ("G" :> <<FieldAt([alias |-> Some("x"), name |-> "a",
                          arguments |-> ("v" :> IntValue(1))], Pos(20, 1))>>)
    @@ ("C" :> <<FragmentSpread("C")>>)

\* the selections that can be written as the i-th item of the selection set
ItemsAt(i) ==
    { FieldAt(shape, Pos(2, i)) : shape \in FieldShapes }
        \cup { InlineFragment(<<FieldAt(shape, Pos(3, i))>>) : shape \in InnerShapes }
        \cup { InlineFragment(<<InlineFragment(
                   <<FieldAt([alias |-> Some("x"), name |-> "a",
                              arguments |-> ("v" :> IntValue(2))], Pos(4, i))>>)>>) }
        \cup { FragmentSpread(name) : name \in {"F", "G", "C", "H"} }

RECURSIVE SelectionSetsOf(_)
SelectionSetsOf(k) ==
    IF k = 0 THEN { <<>> }
    ELSE { Append(items, item) : items \in SelectionSetsOf(k - 1), item \in ItemsAt(k) }
SelectionSets == UNION { SelectionSetsOf(k) : k \in 0..MaxItems }

NotFragment == ""

\* the validation of one document reaches a selection set
InitOverlapping ==
    /\ ResolveIdle
    /\ VarsIdle
    /\ data = NoData
    /\ visitor \in { [rule |-> "OverlappingFieldsCanBeMerged", pc |-> "idle",
                      fragments |-> DocFragments, selection_set |-> selection_set,
                      stack |-> <<>>, names |-> <<>>, outputs |-> <<>>,
                      errors |-> <<>>] :
                     selection_set \in SelectionSets }

\* the calls of find that have not returned, the innermost first: `stack`
\* holds the selections each has still to visit, `names` the fragment whose
\* selection set it was called on (NotFragment for the selection set that
\* was entered and for an inline fragment)
\* the selection the innermost call of find is about to visit
Visiting == Head(Head(visitor.stack))
InFind ==
    /\ visitor.rule = "OverlappingFieldsCanBeMerged"
    /\ visitor.pc = "find"
    /\ Head(visitor.stack) # <<>>
\* the stack once the innermost call has moved past that selection
Advanced == <<Tail(Head(visitor.stack))>> \o Tail(visitor.stack)

\* enter_selection_set: a FindConflicts with no outputs, and the call of find
EnterSelectionSet ==
    /\ visitor.rule = "OverlappingFieldsCanBeMerged"
    /\ visitor.pc = "idle"
    /\ visitor' = [visitor EXCEPT !.pc = "find", !.stack = <<visitor.selection_set>>,
                                  !.names = <<NotFragment>>, !.outputs = <<>>]
    /\ UNCHANGED <<counter, ctxs, calls, allocated, variables, variable_definitions,
                   op, data>>

\* find meets a field
FindField ==
    /\ InFind
    /\ Visiting.kind = "Field"
    /\ LET added == AddOutput(visitor.outputs, visitor.errors,
                              OutputName(Visiting), Visiting)
       IN  visitor' = [visitor EXCEPT !.outputs = added.outputs,
                                      !.errors = added.errors,
                                      !.stack = Advanced]
    /\ UNCHANGED <<counter, ctxs, calls, allocated, variables, variable_definitions,
                   op, data>>

\* find meets an inline fragment and calls itself on its selection set
FindInlineFragment ==
    /\ InFind
    /\ Visiting.kind = "InlineFragment"
    /\ Len(visitor.stack) < MaxDepth
    /\ visitor' = [visitor EXCEPT !.stack = <<Visiting.selection_set>> \o Advanced,
                                  !.names = <<NotFragment>> \o @]
    /\ UNCHANGED <<counter, ctxs, calls, allocated, variables, variable_definitions,
                   op, data>>

\* find meets a fragment spread and calls itself on the fragment, if there is one
FindFragmentSpread ==
    /\ InFind
    /\ Visiting.kind = "FragmentSpread"
    /\ LET fragment == Fragment(visitor.fragments, Visiting.fragment_name)
       IN  IF IsSome(fragment)
           THEN /\ Len(visitor.stack) < MaxDepth
                /\ visitor' = [visitor EXCEPT
                                  !.stack = <<Unwrap(fragment)>> \o Advanced,
                                  !.names = <<Visiting.fragment_name>> \o @]
           ELSE visitor' = [visitor EXCEPT !.stack = Advanced]
    /\ UNCHANGED <<counter, ctxs, calls, allocated, variables, variable_definitions,
                   op, data>>

\* a call of find has visited every item and returns
FindReturn ==
    /\ visitor.rule = "OverlappingFieldsCanBeMerged"
    /\ visitor.pc = "find"
    /\ Head(visitor.stack) = <<>>
    /\ visitor' = [visitor EXCEPT !.stack = Tail(visitor.stack),
                                  !.names = Tail(visitor.names),
                                  !.pc = IF Tail(visitor.stack) = <<>> THEN "done"
                                         ELSE "find"]
    /\ UNCHANGED <<counter, ctxs, calls, allocated, variables, variable_definitions,
                   op, data>>

NextOverlapping ==
    \/ EnterSelectionSet
    \/ FindField
    \/ FindInlineFragment
    \/ FindFragmentSpread
    \/ FindReturn

SpecOverlapping == InitOverlapping /\ [][NextOverlapping]_vars

(***************************************************************************)
(* Validation: the rule UploadFile                                         *)
(***************************************************************************)
MaxVars == 2       \* variable definitions of the operation

\* parser::ast::Type
TypeNamed(name) == [kind |-> "Named", name |-> name]
TypeList(ty) == [kind |-> "List", ty |-> ty]
TypeNonNull(ty) == [kind |-> "NonNull", ty |-> ty]

\* Registry::concrete_type_by_parsed_type: the wrappers are peeled and the
\* name that is left is looked up among the registry's types
RECURSIVE ConcreteTypeByParsedType(_, _)
ConcreteTypeByParsedType(registry, ty) ==
    IF ty.kind = "Named"
    THEN (IF ty.name \in registry THEN Some(ty.name) ELSE None)
    ELSE ConcreteTypeByParsedType(registry, ty.ty)

\* the operations whose variable definitions the rule looks at
QueryOnly(operation_definition) == operation_definition.kind = "Query"
QueryOrSubscription(operation_definition) ==
    operation_definition.kind \in {"Query", "Subscription"}

\* the loop over the variable definitions of a query or a subscription
RECURSIVE UploadErrors(_, _)
UploadErrors(registry, var_defs) ==
    IF var_defs = <<>> THEN <<>>
    ELSE LET var == Head(var_defs)
             ty == ConcreteTypeByParsedType(registry, var.var_type)
         IN  (IF IsSome(ty) /\ Unwrap(ty) = "Upload"
              THEN <<RuleError(<<var.position>>,
                       "The Upload type is only allowed to be defined on a mutation")>>
              ELSE <<>>)
                \o UploadErrors(registry, Tail(var_defs))

\* the types of the schema, and the types a variable can be declared with
RegistryTypes == {"Int", "String", "Upload"}
VarTypes ==
    { TypeNamed("Upload"), TypeNonNull(TypeNamed("Upload")),
      TypeList(TypeNamed("Upload")),
      TypeNonNull(TypeList(TypeNonNull(TypeNamed("Upload")))),
      TypeNamed("Int"), TypeList(TypeNamed("String")), TypeNamed("Missing") }

RECURSIVE VariableDefinitionsOf(_)
VariableDefinitionsOf(k) ==
    IF k = 0 THEN { <<>> }
    ELSE { Append(defs, [name |-> IF k = 1 THEN "v" ELSE "w", var_type |-> ty,
                         position |-> Pos(1, k)]) :
             defs \in VariableDefinitionsOf(k - 1), ty \in VarTypes }

\* OperationDefinition: a bare selection set declares no variables
OperationDefinitions ==
    { [kind |-> kind, variable_definitions |-> defs] :
        kind \in {"Query", "Mutation", "Subscription"},
        defs \in UNION { VariableDefinitionsOf(k) : k \in 0..MaxVars } }
      \cup { [kind |-> "SelectionSet", variable_definitions |-> <<>>] }

InitUploadFile ==
    /\ ResolveIdle
    /\ VarsIdle
    /\ data = NoData
    /\ visitor \in { [rule |-> "UploadFile", pc |-> "idle", registry |-> RegistryTypes,
                      operation_definition |-> operation_definition,
                      errors |-> <<>>] :
                     operation_definition \in OperationDefinitions }

\* UploadFile::enter_operation_definition
EnterOperationDefinition ==
    /\ visitor.rule = "UploadFile"
    /\ visitor.pc = "idle"
    /\ visitor' =
          [visitor EXCEPT
             !.pc = "done",
             !.errors =
                IF QueryOrSubscription(visitor.operation_definition)
                THEN visitor.errors
                        \o UploadErrors(visitor.registry,
                              visitor.operation_definition.variable_definitions)
                ELSE visitor.errors]
    /\ UNCHANGED <<counter, ctxs, calls, allocated, variables, variable_definitions,
                   op, data>>

NextUploadFile == EnterOperationDefinition

SpecUploadFile == InitUploadFile /\ [][NextUploadFile]_vars

(***************************************************************************)
(* The parser (parser/parser.rs): from the pairs of the grammar to the AST *)
(***************************************************************************)

\* a pest Pair: its rule, the text it spans and its inner pairs.  The text
\* of a number is kept as its characters
Pair(rule, text, inner) ==
    [rule |-> rule, text |-> text, chars |-> <<>>, inner |-> inner]
NumberPair(rule, chars) ==
    [rule |-> rule, text |-> "", chars |-> chars, inner |-> <<>>]

\* the last inner pair with the given rule, as the loops over into_inner keep it
LastInner(pair, rule) ==
    LET found == SelectSeq(pair.inner, LAMBDA inner : inner.rule = rule)
    IN  IF found = <<>> THEN None ELSE Some(found[Len(found)])

\* str::parse::<i64>: the digits are accumulated with checked arithmetic, so
\* the call fails exactly when the numeral lies beyond i64::MAX or i64::MIN
I64Max == <<"9", "2", "2", "3", "3", "7", "2", "0", "3", "6", "8", "5", "4", "7",
            "7", "5", "8", "0", "7">>
I64MinMagnitude == <<"9", "2", "2", "3", "3", "7", "2", "0", "3", "6", "8", "5", "4",
                     "7", "7", "5", "8", "0", "8">>
DigitOf(c) == CHOOSE d \in 0..9 : Digits[d + 1] = c
RECURSIVE DigitsGreater(_, _)
DigitsGreater(a, b) ==
    IF a = <<>> THEN FALSE
    ELSE IF Head(a) # Head(b) THEN DigitOf(Head(a)) > DigitOf(Head(b))
    ELSE DigitsGreater(Tail(a), Tail(b))
RECURSIVE DigitsToNat(_)
DigitsToNat(digits) ==
    IF digits = <<>> THEN 0
    ELSE DigitsToNat(SubSeq(digits, 1, Len(digits) - 1)) * 10
            + DigitOf(digits[Len(digits)])
\* a number of up to nine digits is an integer of the model; a longer one
\* that fits an i64 is kept as its numeral
ParseI64(text) ==
    LET negative == Head(text) = "-"
        digits == IF negative THEN Tail(text) ELSE text
        bound == IF negative THEN I64MinMagnitude ELSE I64Max
        overflow == \/ Len(digits) > Len(bound)
                    \/ Len(digits) = Len(bound) /\ DigitsGreater(digits, bound)
    IN  IF overflow THEN Err("ParseIntError")
        ELSE IF Len(digits) > 9 THEN Ok(text)
        ELSE Ok(IF negative THEN 0 - DigitsToNat(digits) ELSE DigitsToNat(digits))

\* str::parse::<f64>: a decimal beyond f64::MAX (about 1.797e308) is rounded
\* to infinity; the call does not fail on it
\* the floats of the model are written `<m>e<x>` with one mantissa digit
Infinity == <<"i", "n", "f">>
ParseF64(text) ==
    LET mantissa == DigitOf(text[1])
        exponent == DigitsToNat(SubSeq(text, 3, Len(text)))
    IN  IF exponent > 308 \/ (exponent = 308 /\ mantissa >= 2) THEN Ok(Infinity)
        ELSE Ok(text)

EnumValue(name) == [kind |-> "Enum", val |-> name]

\* parse_variable
ParseVariable(pair) == Unwrap(LastInner(pair, "name")).text

\* parse_value, parse_array_value, parse_object_value and parse_pair; the
\* unwinding of an unwrap is carried outwards.  ParsePairs is the loop
\* `map.extend(once(parse_pair(pair)))`: a later pair replaces an earlier
\* one of the same name
RECURSIVE ParseValue(_), ParsePairs(_)
ParsePairs(pairs) ==
    LET values == [i \in DOMAIN pairs |-> ParseValue(pairs[i].inner[2])]
        names == { pairs[i].inner[1].text : i \in DOMAIN pairs }
        last(name) == CHOOSE i \in DOMAIN pairs :
                         /\ pairs[i].inner[1].text = name
                         /\ \A j \in DOMAIN pairs :
                               j > i => pairs[j].inner[1].text # name
    IN  IF \E i \in DOMAIN values : values[i] = Panicked THEN Panic
        ELSE Ok([name \in names |-> values[last(name)]])
ParseValue(pair) ==
    LET inner == pair.inner[1]
    IN  CASE inner.rule = "object" ->
               IF ParsePairs(inner.inner).ok THEN Object(ParsePairs(inner.inner).val)
               ELSE Panicked
          [] inner.rule = "array" ->
               LET array == [i \in DOMAIN inner.inner |-> ParseValue(inner.inner[i])]
               IN  IF \E i \in DOMAIN array : array[i] = Panicked THEN Panicked
                   ELSE List(array)
          [] inner.rule = "variable" -> Variable(ParseVariable(inner))
          [] inner.rule = "float" -> FloatValue(ParseF64(inner.chars).val)
          [] inner.rule = "int" ->
               IF ParseI64(inner.chars).ok THEN IntValue(ParseI64(inner.chars).val)
               ELSE Panicked
          [] inner.rule = "string" -> String(inner.text)
          [] inner.rule = "name" -> EnumValue(inner.text)
          [] inner.rule = "boolean" -> Boolean(inner.text = "true")
          [] inner.rule = "null" -> Null

\* parse_arguments
ParseArguments(pair) == ParsePairs(pair.inner)

\* parse_directives: the loop visits every directive pair and pushes nothing
ParseDirectives(pair) == <<>>

\* parse_alias
ParseAlias(pair) == Unwrap(LastInner(pair, "name")).text

\* Option::unwrap_or_default on what a loop over the inner pairs has kept
UnwrapOrDefault(option, default) == IF IsSome(option) THEN Unwrap(option) ELSE default

\* parse_field, parse_fragment_spread, parse_inline_fragment and
\* parse_selection_set: Ok(node) or the unwinding of parse_value
RECURSIVE ParseSelectionSet(_), ParseSelection(_)
ParseSelectionSet(pair) ==
    LET items == [i \in DOMAIN pair.inner |-> ParseSelection(pair.inner[i].inner[1])]
    IN  IF \E i \in DOMAIN items : ~items[i].ok THEN Panic
        ELSE Ok([i \in DOMAIN items |-> items[i].val])
ParseSelection(pair) ==
    LET alias == LastInner(pair, "alias")
        name == LastInner(pair, "name")
        arguments == LastInner(pair, "arguments")
        directives == LastInner(pair, "directives")
        selection_set == LastInner(pair, "selection_set")
        parsed_directives ==
            UnwrapOrDefault(IF IsSome(directives)
                            THEN Some(ParseDirectives(Unwrap(directives)))
                            ELSE None, <<>>)
        parsed_arguments ==
            IF IsSome(arguments) THEN ParseArguments(Unwrap(arguments)) ELSE Ok(<<>>)
        parsed_selection_set ==
            IF IsSome(selection_set) THEN ParseSelectionSet(Unwrap(selection_set))
            ELSE Ok(<<>>)
    IN  CASE pair.rule = "field" ->
               IF ~parsed_arguments.ok \/ ~parsed_selection_set.ok THEN Panic
               ELSE Ok([kind |-> "Field",
                        alias |-> IF IsSome(alias) THEN Some(ParseAlias(Unwrap(alias)))
                                  ELSE None,
                        name |-> Unwrap(name).text,
                        arguments |-> parsed_arguments.val,
                        directives |-> parsed_directives,
                        selection_set |-> parsed_selection_set.val])
          [] pair.rule = "fragment_spread" ->
               Ok([kind |-> "FragmentSpread", fragment_name |-> Unwrap(name).text,
                   directives |-> parsed_directives])
          [] pair.rule = "inline_fragment" ->
               IF ~parsed_selection_set.ok THEN Panic
               ELSE Ok([kind |-> "InlineFragment", directives |-> parsed_directives,
                        selection_set |-> parsed_selection_set.val])

\* parse_named_operation_definition and parse_fragment_definition, and the
\* arm of parse_query for a bare selection set
ParseDefinition(pair) ==
    LET operation_type == LastInner(pair, "operation_type")
        name == LastInner(pair, "name")
        directives == LastInner(pair, "directives")
        parsed_directives ==
            UnwrapOrDefault(IF IsSome(directives)
                            THEN Some(ParseDirectives(Unwrap(directives)))
                            ELSE None, <<>>)
        selection_set ==
            IF pair.rule = "selection_set" THEN ParseSelectionSet(pair)
            ELSE ParseSelectionSet(Unwrap(LastInner(pair, "selection_set")))
    IN  IF ~selection_set.ok THEN Panic
        ELSE CASE pair.rule = "named_operation_definition" ->
                    Ok([kind |-> CASE Unwrap(operation_type).text = "query" -> "Query"
                                   [] Unwrap(operation_type).text = "mutation" -> "Mutation"
                                   [] Unwrap(operation_type).text = "subscription" ->
                                         "Subscription",
                        directives |-> parsed_directives,
                        selection_set |-> selection_set.val])
               [] pair.rule = "selection_set" ->
                    Ok([kind |-> "SelectionSet", selection_set |-> selection_set.val])
               [] pair.rule = "fragment_definition" ->
                    Ok([kind |-> "Fragment", name |-> Unwrap(name).text,
                        directives |-> parsed_directives,
                        selection_set |-> selection_set.val])

\* parse_query.  The grammar (parser/query.pest) either rejects the text,
\* and the `?` returns its error, or hands over the document pair
ParseQuery(input) ==
    IF ~input.accepted THEN Err("ParseError")
    ELSE LET pairs == SelectSeq(input.document.inner, LAMBDA pair : pair.rule # "EOI")
             definitions == [i \in DOMAIN pairs |-> ParseDefinition(pairs[i])]
         IN  IF \E i \in DOMAIN definitions : ~definitions[i].ok THEN Panic
             ELSE Ok([definitions |-> [i \in DOMAIN definitions |-> definitions[i].val]])

\* the pairs the grammar hands over for the texts of the model
NamePair(name) == Pair("name", name, <<>>)
ValuePair(rule, text, inner) == Pair("value", text, <<Pair(rule, text, inner)>>)
NumberValuePair(rule, chars) == Pair("value", "", <<NumberPair(rule, chars)>>)
VariablePair(name) == ValuePair("variable", "$" \o name, <<NamePair(name)>>)
NamedValuePair(name, value) == Pair("pair", name, <<NamePair(name), value>>)

Nines == [i \in 1..20 |-> "9"]
IntTexts ==
    { <<"7">>, <<"-", "3">>, I64Max, <<"-">> \o I64MinMagnitude,
      I64MinMagnitude, <<"-">> \o SubSeq(I64Max, 1, 18) \o <<"9">>, Nines }
FloatTexts ==
    { <<m, "e">> \o x : m \in {"1", "2"},
                        x \in { <<"0">>, <<"3", "0", "8">>, <<"3", "0", "9">> } }
ValuePairs ==
    { NumberValuePair("int", text) : text \in IntTexts }
        \cup { NumberValuePair("float", text) : text \in FloatTexts }
        \cup { VariablePair("v"), ValuePair("boolean", "true", <<>>),
               ValuePair("array", "[..]", <<NumberValuePair("int", Nines)>>),
               ValuePair("object", "{..}",
                         <<NamedValuePair("k", NumberValuePair("int", <<"7">>))>>) }

DirectivePair(name, value) ==
    Pair("directive", "@" \o name,
         <<NamePair(name), Pair("arguments", "(..)", <<NamedValuePair("if", value)>>)>>)
DirectivePairs ==
    { DirectivePair("skip", ValuePair("boolean", "true", <<>>)),
      DirectivePair("include", VariablePair("v")),
      DirectivePair("skip", NumberValuePair("int", Nines)) }
\* what is written after a name: no directives, or a directives pair
DirectivesWritten ==
    { <<>> } \cup { <<Pair("directives", "@..", directives)>> :
                      directives \in SeqUpTo(DirectivePairs, MaxDirs) \ { <<>> } }

SelectionPair(pair) == Pair("selection", pair.text, <<pair>>)
SelectionSetPair(pairs) ==
    Pair("selection_set", "{..}", [i \in DOMAIN pairs |-> SelectionPair(pairs[i])])
FieldPair(alias, name, arguments, directives) ==
    Pair("field", name,
         (IF IsSome(alias) THEN <<Pair("alias", Unwrap(alias), <<NamePair(Unwrap(alias))>>)>>
          ELSE <<>>)
         \o <<NamePair(name)>>
         \o (IF IsSome(arguments)
             THEN <<Pair("arguments", "(..)", <<NamedValuePair("x", Unwrap(arguments))>>)>>
             ELSE <<>>)
         \o directives)

DefinitionPairs ==
    { SelectionSetPair(<<FieldPair(alias, "a", arguments, directives),
                         FieldPair(None, "b", None, <<>>)>>) :
        alias \in {None, Some("x")},
        arguments \in {None} \cup { Some(value) : value \in ValuePairs },
        directives \in DirectivesWritten }
    \cup { Pair("named_operation_definition", operation_type,
                <<Pair("operation_type", operation_type, <<>>)>> \o directives
                   \o <<SelectionSetPair(<<FieldPair(None, "a", None, <<>>)>>)>>) :
             operation_type \in {"query", "mutation", "subscription"},
             directives \in DirectivesWritten }
    \cup { SelectionSetPair(<<Pair("fragment_spread", "...F",
                                   <<NamePair("F")>> \o directives)>>) :
             directives \in DirectivesWritten }
    \cup { SelectionSetPair(<<Pair("inline_fragment", "...",
                                   directives
                                   \o <<SelectionSetPair(
                                          <<FieldPair(None, "a", None, directives)>>)>>)>>) :
             directives \in DirectivesWritten }
    \cup { Pair("fragment_definition", "fragment F",
                <<NamePair("F"), Pair("type_condition", "on T", <<NamePair("T")>>)>>
                   \o directives
                   \o <<SelectionSetPair(<<FieldPair(None, "a", None, <<>>)>>)>>) :
             directives \in DirectivesWritten }

\* the texts handed to parse_query: one the grammar rejects, and documents
\* of one definition
QueryInputs ==
    { [accepted |-> FALSE] }
        \cup { [accepted |-> TRUE,
                document |-> Pair("document", definition.text,
                                  <<definition, Pair("EOI", "", <<>>)>>)] :
                 definition \in DefinitionPairs }

InitParser == ResolveIdle /\ VarsIdle /\ EnvIdle

ParseQueryCall(input) ==
    /\ op = NoOp
    /\ op' = [name |-> "parse_query", input |-> input, result |-> ParseQuery(input)]
    /\ UNCHANGED <<counter, ctxs, calls, allocated, variables, variable_definitions,
                   data, visitor>>

NextParser == \E input \in QueryInputs : ParseQueryCall(input)

SpecParser == InitParser /\ [][NextParser]_vars

(***************************************************************************)
(* Data: the values of the schema and of the request, keyed by their type  *)
(***************************************************************************)

\* Data::insert: the value is boxed and stored under the TypeId of its type
Boxed(D, value) == [type |-> D, val |-> value]
Insert(map, D, value) == (D :> Boxed(D, value)) @@ map

\* <dyn Any>::downcast_ref::<D>
DowncastRef(d, D) == IF d.type = D THEN Some(d.val) ELSE None

\* HashMap::get
Get(map, key) == IF key \in DOMAIN map THEN Some(map[key]) ELSE None

\* data_opt::<D>
DataOptSchemaFirst(ctx_data, schema_data, D) ==
    LET found == IF IsSome(Get(schema_data, D)) THEN Get(schema_data, D)
                 ELSE IF IsSome(ctx_data) THEN Get(Unwrap(ctx_data), D)
                 ELSE None
    IN  IF IsSome(found) THEN DowncastRef(Unwrap(found), D) ELSE None
DataOpt(ctx_data, schema_data, D) ==
    LET in_ctx == IF IsSome(ctx_data) THEN Get(Unwrap(ctx_data), D) ELSE None
        found == IF IsSome(in_ctx) THEN in_ctx ELSE Get(schema_data, D)
    IN  IF IsSome(found) THEN DowncastRef(Unwrap(found), D) ELSE None

\* the types and the values of the model's data; every Data is built by
\* inserts: nothing, one value, or a value for each of two types
TypeIds == {"A", "B", "C"}
DataValues == {1, 2}
DataMaps ==
    { <<>> }
        \cup { Insert(<<>>, D, value) : D \in {"A", "B"}, value \in DataValues }
        \cup { Insert(Insert(<<>>, "A", a), "B", b) : a \in DataValues, b \in DataValues }

InitData ==
    /\ ResolveIdle
    /\ VarsIdle
    /\ visitor = NoVisitor
    /\ data \in { [schema |-> schema_data, ctx |-> ctx_data] :
                    schema_data \in DataMaps,
                    ctx_data \in {None} \cup { Some(map) : map \in DataMaps } }

DataOptCall(D) ==
    /\ op = NoOp
    /\ op' = [name |-> "data_opt", type |-> D,
              result |-> DataOpt(data.ctx, data.schema, D)]
    /\ UNCHANGED <<counter, ctxs, calls, allocated, variables, variable_definitions,
                   data, visitor>>

NextData == \E D \in TypeIds : DataOptCall(D)

SpecData == InitData /\ [][NextData]_vars

(***************************************************************************)
(* QueryPathNode::to_json                                                  *)
(***************************************************************************)

\* for_each_ref: the parent chain first, then the node's own segment; gives
\* the segments in the order the closure is called on them
ForEachRefLeafFirst(node) == node
RECURSIVE ForEachRef(_)
ForEachRef(node) ==
    (IF Tail(node) # <<>> THEN ForEachRef(Tail(node)) ELSE <<>>) \o <<Head(node)>>

\* the serde_json::Value of a segment: `(*idx).into()` is a Number that
\* holds the usize, `name.to_string().into()` a String
SegmentToJson(segment) ==
    IF segment.kind = "Index"
    THEN JsonPosInt(<<0, 0, segment.val \div 65536, segment.val % 65536>>)
    ELSE JsonString(segment.val)

\* to_json
ToJson(node) ==
    LET segments == ForEachRef(node)
    IN  JsonArray([i \in DOMAIN segments |-> SegmentToJson(segments[i])])

(***************************************************************************)
(* JSON integers: claim C11                                                *)
(***************************************************************************)

\* the JSON integer of the variable "a", when the parsed input is an object
\* that holds one
ParsedInteger ==
    IF /\ op.name = "parse_from_json"
       /\ op.value.kind = "Object"
       /\ "a" \in DOMAIN op.value.val
       /\ op.value.val["a"].kind = "Number"
       /\ op.value.val["a"].n # "Float"
    THEN Some(op.value.val["a"])
    ELSE None

\* the integer lies in the range of i32: bits 63..31 are all equal
InI32Range(number) ==
    \/ /\ number.n = "PosInt"
       /\ number.val[1] = 0 /\ number.val[2] = 0 /\ number.val[3] < 32768
    \/ /\ number.n = "NegInt"
       /\ number.val[1] = 65535 /\ number.val[2] = 65535 /\ number.val[3] >= 32768

\* the number an integer of the i32 range denotes
NumberOf(number) ==
    IF number.n = "PosInt" THEN number.val[3] * 65536 + number.val[4]
    ELSE (number.val[3] - 65536) * 65536 + number.val[4]

\* C11: parse_from_json maps a JSON integer of the 32-bit range to the Int
\* of the same number, and answers an integer outside that range with an
\* error: it neither wraps the number modulo 2^32 nor crashes.
C11_JsonIntegerKeepsNumber ==
    IsSome(ParsedInteger) =>
        LET number == Unwrap(ParsedInteger)
        IN  IF InI32Range(number)
            THEN /\ op.result.ok
                 /\ variables.val["a"] = IntValue(NumberOf(number))
            ELSE /\ ~op.result.ok
                 /\ "err" \in DOMAIN op.result

\* integers of the 32-bit range do keep their number
C11_InRangeKeepsNumber ==
    (IsSome(ParsedInteger) /\ InI32Range(Unwrap(ParsedInteger))) =>
        /\ op.result.ok
        /\ variables.val["a"] = IntValue(NumberOf(Unwrap(ParsedInteger)))

\* an integer above i32::MAX that comes out as a different Int
C11_Wrapped ==
    /\ IsSome(ParsedInteger)
    /\ ~InI32Range(Unwrap(ParsedInteger))
    /\ op.result.ok
    /\ variables.val["a"].kind = "Int"

\* an integer above i64::MAX, on which as_i64 is None and unwrap unwinds
C11_Crashed ==
    /\ IsSome(ParsedInteger)
    /\ op.result = Panic

(***************************************************************************)
(* Overlapping fields: claims C12 and C13                                  *)
(***************************************************************************)

\* the rule has finished with the selection set it entered
FindDone ==
    /\ visitor.rule = "OverlappingFieldsCanBeMerged"
    /\ visitor.pc = "done"

OnlyFields(selection_set) ==
    \A i \in 1..Len(selection_set) : selection_set[i].kind = "Field"

ResponseKey(field) ==
    IF field.alias = None THEN field.name ELSE field.alias[1]

\* the arguments of a field as a set of name/value pairs
ArgumentSet(field) ==
    { <<name, field.arguments[name]>> : name \in DOMAIN field.arguments }

\* two fields that cannot be merged
Conflict(f, g) ==
    /\ ResponseKey(f) = ResponseKey(g)
    /\ f.name # g.name \/ ArgumentSet(f) # ArgumentSet(g)

ErrorLocations == { visitor.errors[e].locations : e \in 1..Len(visitor.errors) }

\* C12: for a selection set of fields the rule reports an error iff two of
\* its fields have the same response key and differ in name or in their
\* argument sets, and every error carries the positions of two such fields,
\* in the order they are written.
C12_ErrorIffConflictingPair ==
    (FindDone /\ OnlyFields(visitor.selection_set)) =>
        LET fields == visitor.selection_set
            pairs == { p \in (1..Len(fields)) \X (1..Len(fields)) :
                         p[1] < p[2] /\ Conflict(fields[p[1]], fields[p[2]]) }
        IN  /\ (visitor.errors # <<>>) <=> (pairs # {})
            /\ \A locations \in ErrorLocations :
                  \E p \in pairs :
                     locations = <<fields[p[1]].position, fields[p[2]].position>>

\* three fields under one response key: the second conflicts with the first
\* and the third does not
C12_Witness ==
    /\ FindDone
    /\ OnlyFields(visitor.selection_set)
    /\ Len(visitor.selection_set) = 3
    /\ ResponseKey(visitor.selection_set[1]) = ResponseKey(visitor.selection_set[3])
    /\ Conflict(visitor.selection_set[1], visitor.selection_set[2])
    /\ ~Conflict(visitor.selection_set[1], visitor.selection_set[3])
    /\ visitor.errors # <<>>

\* the fields of a selection set in the order they are written, the inline
\* fragments and the spreads of defined fragments replaced by their contents
RECURSIVE Expansion(_, _)
Expansion(selection_set, depth) ==
    IF selection_set = <<>> \/ depth = 0 THEN <<>>
    ELSE LET item == Head(selection_set)
         IN  (CASE item.kind = "Field" -> <<item>>
                [] item.kind = "InlineFragment" ->
                      Expansion(item.selection_set, depth - 1)
                [] item.kind = "FragmentSpread" ->
                      IF item.fragment_name \in DOMAIN visitor.fragments
                      THEN Expansion(visitor.fragments[item.fragment_name], depth - 1)
                      ELSE <<>>)
                \o Expansion(Tail(selection_set), depth)

Expanded == Expansion(visitor.selection_set, MaxDepth)

\* the first field of the expansion that has the response key of field
FirstOfKey(field) ==
    Expanded[CHOOSE i \in 1..Len(Expanded) :
               /\ ResponseKey(Expanded[i]) = ResponseKey(field)
               /\ \A j \in 1..(i - 1) : ResponseKey(Expanded[j]) # ResponseKey(field)]

RECURSIVE Peeled(_)
Peeled(ty) == IF ty.kind = "Named" THEN ty.name ELSE Peeled(ty.ty)

\* the positions of the Upload variables of the operation, in order
UploadPositions ==
    LET defs == visitor.operation_definition.variable_definitions
    IN  { defs[i].position : i \in { j \in 1..Len(defs) :
                                        Peeled(defs[j].var_type) = "Upload" } }

\* C14: for a query or a subscription the rule reports exactly one error per
\* variable definition whose peeled type is Upload, at that definition's
\* position; for a mutation, and for variables of other types, it reports
\* nothing.
C14_UploadOnlyOnMutation ==
    (visitor.rule = "UploadFile" /\ visitor.pc = "done") =>
        IF visitor.operation_definition.kind \in {"Query", "Subscription"}
        THEN /\ Len(visitor.errors) = Cardinality(UploadPositions)
             /\ { visitor.errors[e].locations : e \in 1..Len(visitor.errors) }
                   = { <<position>> : position \in UploadPositions }
        ELSE visitor.errors = <<>>

\* a subscription that declares a wrapped Upload and a variable of another type
C14_Witness ==
    /\ visitor.rule = "UploadFile"
    /\ visitor.pc = "done"
    /\ visitor.operation_definition.kind = "Subscription"
    /\ Len(visitor.operation_definition.variable_definitions) = 2
    /\ visitor.operation_definition.variable_definitions[1].var_type
          = TypeNonNull(TypeList(TypeNonNull(TypeNamed("Upload"))))
    /\ Len(visitor.errors) = 1

\* a mutation that declares an Upload passes the rule
C14_MutationWitness ==
    /\ visitor.rule = "UploadFile"
    /\ visitor.pc = "done"
    /\ visitor.operation_definition.kind = "Mutation"
    /\ UploadPositions # {}
    /\ visitor.errors = <<>>

(***************************************************************************)
(* The parser: claims C15 and C16                                          *)
(***************************************************************************)

Parsed == op.name = "parse_query" /\ op.input.accepted

\* an int numeral beyond the 64 bits of Value::Int, a float numeral beyond
\* the largest finite f64
NumeralOutOfRange(pair) ==
    \/ /\ pair.rule = "int"
       /\ ~ParseI64(pair.chars).ok
    \/ /\ pair.rule = "float"
       /\ ParseF64(pair.chars).val = Infinity

\* the pair or a pair inside it, at any depth, is such a numeral
RECURSIVE HoldsOutOfRange(_)
HoldsOutOfRange(pair) ==
    \/ NumeralOutOfRange(pair)
    \/ \E i \in DOMAIN pair.inner : HoldsOutOfRange(pair.inner[i])

IsParseError(result) == ~result.ok /\ "err" \in DOMAIN result /\ result.err = "ParseError"

\* C15: parse_query returns a ParseError for every document that holds an
\* integer literal outside the 64-bit range or a float literal outside the
\* range of the finite floats; it neither crashes nor yields another number.
C15_OutOfRangeLiteralIsParseError ==
    (Parsed /\ HoldsOutOfRange(op.input.document)) => IsParseError(op.result)

\* the numerals inside the range are parsed: the document comes back
C15_InRangeParsed ==
    (Parsed /\ ~HoldsOutOfRange(op.input.document)) => op.result.ok

\* `{ a(x: 9223372036854775808) b }`: the unwrap of the failed parse unwinds
C15_Crashed ==
    /\ Parsed
    /\ op.result = Panic

\* `{ a(x: 1e309) b }`: the document comes back with an infinite Float
C15_Infinite ==
    /\ Parsed
    /\ op.result.ok
    /\ op.result.val.definitions[1].kind = "SelectionSet"
    /\ op.result.val.definitions[1].selection_set[1].kind = "Field"
    /\ "x" \in DOMAIN op.result.val.definitions[1].selection_set[1].arguments
    /\ op.result.val.definitions[1].selection_set[1].arguments["x"].kind = "Float"
    /\ op.result.val.definitions[1].selection_set[1].arguments["x"].val = Infinity

\* the names of the directives written on a node, in source order
WrittenDirectives(pair) ==
    LET directives == LastInner(pair, "directives")
    IN  IF directives = None THEN <<>>
        ELSE [i \in DOMAIN directives[1].inner |-> directives[1].inner[i].inner[1].text]

\* the selection set written on a node: the pairs of its selections
WrittenSelections(pair) ==
    LET selection_set == IF pair.rule = "selection_set" THEN Some(pair)
                         ELSE LastInner(pair, "selection_set")
    IN  IF selection_set = None THEN <<>>
        ELSE [i \in DOMAIN selection_set[1].inner |-> selection_set[1].inner[i].inner[1]]

\* the node parsed from the pair, and every node below it, lists the
\* directives written on it
RECURSIVE DirectivesKept(_, _)
DirectivesKept(pair, node) ==
    /\ pair.rule # "selection_set" =>
          /\ Len(node.directives) = Len(WrittenDirectives(pair))
          /\ \A i \in DOMAIN node.directives :
                node.directives[i].name = WrittenDirectives(pair)[i]
    /\ "selection_set" \in DOMAIN node =>
          /\ Len(node.selection_set) = Len(WrittenSelections(pair))
          /\ \A i \in DOMAIN node.selection_set :
                DirectivesKept(WrittenSelections(pair)[i], node.selection_set[i])

\* the document is `{ a @skip(if: true) b }`, with or without an alias and an
\* argument on a
SkipWritten ==
    /\ Parsed
    /\ op.input.document.inner[1].rule = "selection_set"
    /\ WrittenSelections(op.input.document.inner[1])[1].rule = "field"
    /\ WrittenDirectives(WrittenSelections(op.input.document.inner[1])[1]) = <<"skip">>
    /\ LastInner(WrittenSelections(op.input.document.inner[1])[1], "directives")[1]
          .inner[1].inner[2].inner[1].inner[2].inner[1].rule = "boolean"

\* C16: parse_query keeps directives: the directives list of every operation,
\* field, fragment spread, inline fragment and fragment definition holds one
\* entry per directive written, in source order, so that is_skip on the field
\* a of `{ a @skip(if: true) b }` is given the directive and answers true.
C16_DirectivesKept ==
    (Parsed /\ op.result.ok) =>
        /\ DirectivesKept(op.input.document.inner[1], op.result.val.definitions[1])
        /\ SkipWritten =>
              IsSkip(variables, variable_definitions,
                     op.result.val.definitions[1].selection_set[1].directives)
                 = Ok(TRUE)

\* a node without directives does come back with an empty list
C16_NoneWritten ==
    (Parsed /\ op.result.ok /\ op.result.val.definitions[1].kind = "SelectionSet"
       /\ op.result.val.definitions[1].selection_set[1].kind = "Field") =>
        op.result.val.definitions[1].selection_set[1].directives = <<>>

\* `{ a @skip(if: true) b }` comes back with no directive on a
C16_Dropped ==
    /\ SkipWritten
    /\ op.result.ok
    /\ op.result.val.definitions[1].selection_set[1].directives = <<>>
    /\ IsSkip(variables, variable_definitions,
              op.result.val.definitions[1].selection_set[1].directives) = Ok(FALSE)

(***************************************************************************)
(* Result names: claim C17                                                 *)
(***************************************************************************)

\* C17: for the context with_field returns for a field, result_name is the
\* alias when the field has one and the field's name otherwise, and the Name
\* segment at the leaf of the context's path is that same string.
C17_ResultNameIsPathSegment ==
    \A c \in 1..Len(ctxs) :
       ctxs[c].made_by = "with_field" =>
          /\ ctxs[c].item.alias # None => ResultName(ctxs[c]) = ctxs[c].item.alias[1]
          /\ ctxs[c].item.alias = None => ResultName(ctxs[c]) = ctxs[c].item.name
          /\ Head(ctxs[c].path_node) = [kind |-> "Name", val |-> ResultName(ctxs[c])]

\* an aliased field and a field without alias have both been entered
C17_Witness ==
    /\ \E c \in 1..Len(ctxs) :
          /\ ctxs[c].made_by = "with_field"
          /\ ctxs[c].item.alias = Some("x") /\ ctxs[c].item.name = "a"
          /\ Head(ctxs[c].path_node).val = "x"
    /\ \E c \in 1..Len(ctxs) :
          /\ ctxs[c].made_by = "with_field"
          /\ ctxs[c].item.alias = None
          /\ Head(ctxs[c].path_node).val = ctxs[c].item.name

(***************************************************************************)
(* Data lookup: claim C18                                                  *)
(***************************************************************************)

\* the Data holds a value of type D
Holds(map, D) == D \in DOMAIN map

\* C18: data_opt::<D> returns the value of type D of the context data when
\* the context data holds one, otherwise the value of the schema data when
\* the schema data holds one, otherwise None.
C18_ContextDataShadowsSchemaData ==
    op.name = "data_opt" =>
        IF data.ctx # None /\ Holds(data.ctx[1], op.type)
        THEN op.result = Some(data.ctx[1][op.type].val)
        ELSE IF Holds(data.schema, op.type)
        THEN op.result = Some(data.schema[op.type].val)
        ELSE op.result = None

\* both hold a value of the type asked for, and the values differ
C18_Witness ==
    /\ op.name = "data_opt"
    /\ data.ctx # None
    /\ Holds(data.ctx[1], op.type)
    /\ Holds(data.schema, op.type)
    /\ data.ctx[1][op.type].val # data.schema[op.type].val
    /\ op.result = Some(data.ctx[1][op.type].val)

\* only the schema data holds a value of the type asked for
C18_SchemaWitness ==
    /\ op.name = "data_opt"
    /\ data.ctx # None
    /\ ~Holds(data.ctx[1], op.type)
    /\ Holds(data.schema, op.type)
    /\ op.result = Some(data.schema[op.type].val)

(***************************************************************************)
(* Derived contexts and paths: claims C19 and C20                          *)
(***************************************************************************)

\* the step appends a context that with_selection_set returned
SelectionSetEntered ==
    /\ Len(ctxs') = Len(ctxs) + 1
    /\ ctxs'[Len(ctxs')].made_by = "with_selection_set"

\* C19: the context with_selection_set returns has the path and the resolve
\* id of the context it is called on and the same references to variables,
\* variable definitions, registry, data and fragments, and the call leaves
\* the resolve-id counter as it was.
C19_SelectionSetKeepsPathAndId ==
    [][SelectionSetEntered =>
          LET child == ctxs'[Len(ctxs')]
              self == ctxs[child.made_on]
          IN  /\ child.path_node = self.path_node
              /\ child.resolve_id = self.resolve_id
              /\ child.refs.variables = self.refs.variables
              /\ child.refs.variable_definitions = self.refs.variable_definitions
              /\ child.refs.registry = self.refs.registry
              /\ child.refs.data = self.refs.data
              /\ child.refs.ctx_data = self.refs.ctx_data
              /\ child.refs.fragments = self.refs.fragments
              /\ counter' = counter
              /\ allocated' = allocated]_vars

\* with_selection_set was called on a context with a path of two segments
\* and a resolve id of its own
C19_Witness ==
    \E c \in 1..Len(ctxs) :
       /\ ctxs[c].made_by = "with_selection_set"
       /\ Len(ctxs[c].path_node) = 2
       /\ ctxs[c].resolve_id.current = 2
       /\ counter = 2

\* the segments pushed on the chain of calls from the root to a context
RECURSIVE PushedOnChain(_)
PushedOnChain(c) ==
    IF ctxs[c].made_by = "create_context" THEN <<>>
    ELSE PushedOnChain(ctxs[c].made_on) \o ctxs[c].pushed

SegmentJson(segment) ==
    IF segment.kind = "Name" THEN [kind |-> "String", val |-> segment.val]
    ELSE [kind |-> "Number", n |-> "PosInt", val |-> <<0, 0, 0, segment.val>>]

\* C20: for every context that has a path, to_json gives the array, root
\* first and leaf last, of exactly the Name and Index segments that the
\* with_field and with_index calls on the chain from the root pushed, in the
\* order they were pushed; with_selection_set adds nothing.
C20_ToJsonIsPushedSegments ==
    \A c \in 1..Len(ctxs) :
       ctxs[c].path_node # None =>
          LET pushed == PushedOnChain(c)
          IN  ToJson(ctxs[c].path_node)
                 = [kind |-> "Array",
                    val |-> [i \in 1..Len(pushed) |-> SegmentJson(pushed[i])]]

\* an index, a selection set and an aliased field below it: the path [1, "x"]
C20_Witness ==
    \E c \in 1..Len(ctxs) :
       /\ ctxs[c].made_by = "with_field"
       /\ ctxs[ctxs[c].made_on].made_by = "with_selection_set"
       /\ ToJson(ctxs[c].path_node)
             = JsonArray(<<JsonPosInt(<<0, 0, 0, 1>>), JsonString("x")>>)

(***************************************************************************)
(* Equality of values: claim C21                                           *)
(***************************************************************************)

IntPair(chars) == NumberValuePair("int", chars)
ArrayPair(values) == ValuePair("array", "[..]", values)
ObjectPair(pairs) == ValuePair("object", "{..}", pairs)

\* the values that are written in a document and compared after parse_value
WrittenValues ==
    { IntPair(<<"1">>), IntPair(<<"2">>), NumberValuePair("float", <<"1", "e", "0">>),
      ValuePair("string", "1", <<>>), ValuePair("name", "a", <<>>),
      ValuePair("boolean", "true", <<>>), ValuePair("null", "null", <<>>),
      VariablePair("a"),
      ArrayPair(<<>>), ArrayPair(<<IntPair(<<"1">>)>>),
      ArrayPair(<<IntPair(<<"1">>), IntPair(<<"2">>)>>),
      ArrayPair(<<IntPair(<<"2">>), IntPair(<<"1">>)>>),
      ArrayPair(<<ArrayPair(<<IntPair(<<"1">>)>>)>>),
      ObjectPair(<<>>),
      ObjectPair(<<NamedValuePair("a", IntPair(<<"1">>))>>),
      ObjectPair(<<NamedValuePair("a", IntPair(<<"1">>)),
                   NamedValuePair("b", IntPair(<<"2">>))>>),
      ObjectPair(<<NamedValuePair("b", IntPair(<<"2">>)),
                   NamedValuePair("a", IntPair(<<"1">>))>>),
      ObjectPair(<<NamedValuePair("a", IntPair(<<"2">>)),
                   NamedValuePair("b", IntPair(<<"1">>))>>),
      ObjectPair(<<NamedValuePair("a", IntPair(<<"1">>)),
                   NamedValuePair("w", IntPair(<<"2">>))>>) }

\* values a resolver builds itself, which no document can hold
BuiltValues ==
    { FloatValue(NaN), FloatValue(<<"1", "e", "0">>), IntValue(1),
      List(<<FloatValue(NaN)>>), List(<<IntValue(1)>>), Object("a" :> FloatValue(NaN)),
      Object("a" :> IntValue(1)) }

NotWritten == [rule |-> "none"]

InitEq == ResolveIdle /\ VarsIdle /\ EnvIdle

\* `a == b` and `b == a` on two values
Compared(x, y, a, b) ==
    [name |-> "eq", x |-> x, y |-> y, a |-> a, b |-> b,
     result |-> ValueEq(a, b), reverse |-> ValueEq(b, a)]

EqWrittenCall(x, y) ==
    /\ op = NoOp
    /\ op' = Compared(x, y, ParseValue(x), ParseValue(y))
    /\ UNCHANGED <<counter, ctxs, calls, allocated, variables, variable_definitions,
                   data, visitor>>

EqBuiltCall(a, b) ==
    /\ op = NoOp
    /\ op' = Compared(NotWritten, NotWritten, a, b)
    /\ UNCHANGED <<counter, ctxs, calls, allocated, variables, variable_definitions,
                   data, visitor>>

NextEq ==
    \/ \E x, y \in WrittenValues : EqWrittenCall(x, y)
    \/ \E a, b \in BuiltValues : EqBuiltCall(a, b)

SpecEq == InitEq /\ [][NextEq]_vars

EqDone == op.name = "eq"

\* the named values written in an object, when no name is written twice
Entries(x) ==
    { <<x.inner[1].inner[i].inner[1].text, x.inner[1].inner[i].inner[2]>> :
        i \in DOMAIN x.inner[1].inner }
WrittenObject(x) ==
    /\ x # NotWritten
    /\ x.inner[1].rule = "object"
    /\ Cardinality(Entries(x)) = Len(x.inner[1].inner)
    /\ Cardinality({ entry[1] : entry \in Entries(x) }) = Len(x.inner[1].inner)

\* C21: equality of values is symmetric, never holds between two variants,
\* holds between two lists exactly when they have the same length and equal
\* elements at every index, and between two objects exactly when they have
\* the same keys and equal values under every key, in whatever order the keys
\* were written
C21_EqualityIsStructural ==
    EqDone =>
        /\ op.result = op.reverse
        /\ op.a.kind # op.b.kind => ~op.result
        /\ op.a.kind = "List" /\ op.b.kind = "List" =>
              (op.result <=>
                  /\ Len(op.a.val) = Len(op.b.val)
                  /\ \A i \in 1..Len(op.a.val) : ValueEq(op.a.val[i], op.b.val[i]))
        /\ op.a.kind = "Object" /\ op.b.kind = "Object" =>
              (op.result <=>
                  /\ DOMAIN op.a.val = DOMAIN op.b.val
                  /\ \A key \in DOMAIN op.a.val : ValueEq(op.a.val[key], op.b.val[key]))
        /\ WrittenObject(op.x) /\ WrittenObject(op.y) /\ Entries(op.x) = Entries(op.y) =>
              op.result

\* two objects with the same entries written in a different order are equal
C21_Witness ==
    /\ EqDone
    /\ WrittenObject(op.x) /\ WrittenObject(op.y)
    /\ op.x # op.y
    /\ Entries(op.x) = Entries(op.y)
    /\ op.result

(***************************************************************************)
(* Arguments: claim C22                                                    *)
(***************************************************************************)

\* a value with every Variable in it resolved, at any depth; the first
\* variable that cannot be resolved, in the order of the value, fails the whole
RECURSIVE Resolved(_), ResolvedEach(_, _)
ResolvedEach(collection, keys) ==
    IF keys = <<>> THEN Ok(collection)
    ELSE LET head == Resolved(collection[Head(keys)])
         IN  IF ~head.ok THEN head
             ELSE ResolvedEach([collection EXCEPT ![Head(keys)] = head.val], Tail(keys))
Resolved(value) ==
    CASE value.kind = "Variable" -> VarValue(variables, variable_definitions, value.val)
      [] value.kind = "List" ->
            LET r == ResolvedEach(value.val, [i \in 1..Len(value.val) |-> i])
            IN  IF r.ok THEN Ok(List(r.val)) ELSE r
      [] value.kind = "Object" ->
            LET r == ResolvedEach(value.val, SortedKeys(value.val))
            IN  IF r.ok THEN Ok(Object(r.val)) ELSE r
      [] OTHER -> Ok(value)

\* the value coerced to ID, or ExpectedType
CoercedToID(value) ==
    CASE value.kind = "Int" -> Ok(IntToString(value.val))
      [] value.kind = "String" -> Ok(value.val)
      [] OTHER -> Err(ExpectedType("ID!", value))

\* C22: param_value(name, default) on a field that has the argument returns
\* the argument with its variables resolved and coerced, whatever the default
\* is, and VarNotDefined when one of its variables cannot be resolved; on a
\* field without the argument it returns the default coerced; a value that
\* does not coerce gives ExpectedType.
C22_ArgumentResolvedAndCoerced ==
    op.name = "param_value" =>
        IF op.arg \in DOMAIN op.arguments
        THEN LET value == Resolved(op.arguments[op.arg])
             IN  IF value.ok THEN op.result = CoercedToID(value.val)
                 ELSE /\ ~op.result.ok
                      /\ op.result.err.error = "VarNotDefined"
        ELSE op.result = CoercedToID(op.default)

\* the same, for the arguments whose variables are the argument itself or
\* its direct elements
C22_ShallowArguments ==
    ( /\ op.name = "param_value"
      /\ op.arg \in DOMAIN op.arguments
      /\ op.arguments[op.arg].kind \in {"List", "Object"}
      /\ \E k \in DOMAIN op.arguments[op.arg].val :
            HasVariable(op.arguments[op.arg].val[k])
               /\ op.arguments[op.arg].val[k].kind # "Variable" )
    \/ C22_ArgumentResolvedAndCoerced

\* an argument holds, two levels deep, a variable that cannot be resolved,
\* and the call returns ExpectedType
C22_NestedUnresolved ==
    /\ op.name = "param_value"
    /\ op.arg \in DOMAIN op.arguments
    /\ ~Resolved(op.arguments[op.arg]).ok
    /\ ~op.result.ok
    /\ op.result.err.error = "ExpectedType"

(***************************************************************************)
(* Resolver dispatch on interfaces (tests/interface.rs): the schema of     *)
(* test_multiple_objects_in_multiple_interfaces, and the execution of a    *)
(* selection set of inline fragments against the objects a resolver gave   *)
(***************************************************************************)
MaxFrags == 3      \* inline fragments of one selection set
MaxObjs == 2       \* objects of the list a resolver returns

\* `#[Interface(..)] struct InterfaceA(MyObjOne, MyObjTwo)` and
\* `struct InterfaceB(MyObjOne)`
PossibleTypes ==
    [InterfaceA |-> {"MyObjOne", "MyObjTwo"}, InterfaceB |-> {"MyObjOne"}]
\* the resolvers of MyObjOne and MyObjTwo and what they return
ObjectResolvers ==
    [MyObjOne |-> [valueA |-> 1, valueB |-> 2, valueC |-> 3],
     MyObjTwo |-> [valueA |-> 1]]

\* the registry the schema builder leaves: each object with the interfaces
\* it implements
Implements ==
    [object \in DOMAIN ObjectResolvers |->
        { interface \in DOMAIN PossibleTypes : object \in PossibleTypes[interface] }]

\* Selection::InlineFragment with its type condition
InlineFragmentOn(type_condition, selection_set) ==
    [kind |-> "InlineFragment", type_condition |-> type_condition,
     selection_set |-> selection_set]

\* Registry::isSubtype: a type is a subtype of itself and of the interfaces
\* it implements
IsSubtypeSameName(implements, child, parent) == child = parent
IsSubtype(implements, child, parent) ==
    \/ child = parent
    \/ child \in DOMAIN implements /\ parent \in implements[child]

\* fragment expansion: the fields of the selection set that apply to an
\* object of the concrete type, in document order
RECURSIVE CollectFields(_, _, _)
CollectFields(implements, concrete, selection_set) ==
    IF selection_set = <<>> THEN <<>>
    ELSE LET selection == Head(selection_set)
             rest == CollectFields(implements, concrete, Tail(selection_set))
         IN  IF selection.kind = "Field" THEN <<selection>> \o rest
             ELSE IF \/ ~IsSome(selection.type_condition)
                     \/ IsSubtype(implements, concrete, Unwrap(selection.type_condition))
             THEN CollectFields(implements, concrete, selection.selection_set) \o rest
             ELSE rest

\* the result object: one entry for each response key, in the order of the
\* first field of the key
RECURSIVE Assemble(_, _, _)
Assemble(concrete, fields, keys) ==
    IF fields = <<>> THEN <<>>
    ELSE LET field == Head(fields)
             key == OutputName(field)
         IN  IF key \in keys THEN Assemble(concrete, Tail(fields), keys)
             ELSE <<[key |-> key, value |-> ObjectResolvers[concrete][field.name]]>>
                     \o Assemble(concrete, Tail(fields), keys \cup {key})

ExecuteSelectionSet(implements, concrete, selection_set) ==
    Assemble(concrete, CollectFields(implements, concrete, selection_set), {})

\* the inline fragments of the model's queries: one field each, which the
\* type the fragment stands on has
FieldOf(alias, name) == Field(alias, name, <<>>, Pos(1, 1))
Fragments ==
    { InlineFragmentOn(None, <<FieldOf(Some("any"), "valueA")>>),
      InlineFragmentOn(Some("InterfaceA"), <<FieldOf(None, "valueA")>>),
      InlineFragmentOn(Some("InterfaceB"), <<FieldOf(None, "valueB")>>),
      InlineFragmentOn(Some("MyObjOne"), <<FieldOf(None, "valueC")>>),
      InlineFragmentOn(Some("MyObjTwo"), <<FieldOf(Some("two"), "valueA")>>) }

InitDispatch == ResolveIdle /\ VarsIdle /\ EnvIdle

\* a field of type [InterfaceA] was resolved to a list of objects
ResolveList(objects, selection_set) ==
    /\ op = NoOp
    /\ op' = [name |-> "execute", objects |-> objects,
              selection_set |-> selection_set, results |-> <<>>]
    /\ UNCHANGED <<counter, ctxs, calls, allocated, variables, variable_definitions,
                   data, visitor>>

\* completion of the next element of the list
CompleteElement ==
    /\ op.name = "execute"
    /\ Len(op.results) < Len(op.objects)
    /\ op' = [op EXCEPT !.results =
                 Append(@, ExecuteSelectionSet(Implements,
                                               op.objects[Len(op.results) + 1],
                                               op.selection_set))]
    /\ UNCHANGED <<counter, ctxs, calls, allocated, variables, variable_definitions,
                   data, visitor>>

NextDispatch ==
    \/ \E objects \in SeqUpTo(DOMAIN ObjectResolvers, MaxObjs),
          selection_set \in SeqUpTo(Fragments, MaxFrags) :
          ResolveList(objects, selection_set)
    \/ CompleteElement

SpecDispatch == InitDispatch /\ [][NextDispatch]_vars

(***************************************************************************)
(* Inline fragments: claim C23                                             *)
(***************************************************************************)

\* the type condition is absent, names the object's type, or names an
\* interface the object's type is declared under
Applies(type_condition, concrete) ==
    \/ type_condition = None
    \/ type_condition = Some(concrete)
    \/ \E interface \in DOMAIN PossibleTypes :
          /\ type_condition = Some(interface)
          /\ concrete \in PossibleTypes[interface]

Keys(result) == { result[k].key : k \in DOMAIN result }
FragmentKeys(fragment) ==
    { OutputName(fragment.selection_set[k]) : k \in DOMAIN fragment.selection_set }
\* the response keys of the fragments, in the order of their first fragment
RECURSIVE KeysInOrder(_, _)
KeysInOrder(fragments, concrete) ==
    IF fragments = <<>> THEN <<>>
    ELSE LET rest == KeysInOrder(Tail(fragments), concrete)
             key == OutputName(Head(fragments).selection_set[1])
         IN  IF Applies(Head(fragments).type_condition, concrete)
             THEN <<key>> \o SelectSeq(rest, LAMBDA other : other # key)
             ELSE rest

\* C23: the result of each completed element of the list holds the fields of
\* an inline fragment if and only if the fragment's type condition is absent,
\* names the element's concrete type or names an interface that type
\* implements; the results stand in the order of the elements.
C23_InlineFragmentIffApplies ==
    op.name = "execute" =>
        /\ Len(op.results) <= Len(op.objects)
        /\ \A i \in DOMAIN op.results :
              /\ \A k \in DOMAIN op.selection_set :
                    Applies(op.selection_set[k].type_condition, op.objects[i])
                       <=> FragmentKeys(op.selection_set[k]) \subseteq Keys(op.results[i])
              /\ [k \in DOMAIN op.results[i] |-> op.results[i][k].key]
                    = KeysInOrder(op.selection_set, op.objects[i])

\* the query and the objects of test_multiple_objects_in_multiple_interfaces,
\* and the data the test expects
C23_Witness ==
    /\ op.name = "execute"
    /\ op.objects = <<"MyObjOne", "MyObjTwo">>
    /\ op.selection_set
          = <<InlineFragmentOn(Some("InterfaceA"), <<FieldOf(None, "valueA")>>),
              InlineFragmentOn(Some("InterfaceB"), <<FieldOf(None, "valueB")>>),
              InlineFragmentOn(Some("MyObjOne"), <<FieldOf(None, "valueC")>>)>>
    /\ op.results
          = << <<[key |-> "valueA", value |-> 1], [key |-> "valueB", value |-> 2],
                 [key |-> "valueC", value |-> 3]>>,
               <<[key |-> "valueA", value |-> 1]>> >>

(***************************************************************************)
(* Schema::new and the conformance of objects to their interfaces          *)
(* (tests/interface.rs)                                                    *)
(***************************************************************************)
MaxArgs == 2       \* arguments of one field

\* a field of an object (`async fn value(&self, a: i32) -> String`) or of an
\* interface (`field(name = "value", type = "String", arg(name = "a", ..))`)
FieldDef(name, ty, args) == [name |-> name, ty |-> ty, args |-> args]
Arg(name, ty) == [name |-> name, ty |-> ty]
\* `#[Object] impl MyObj` and `#[Interface(..)] struct MyInterface(MyObj)`
ObjectType(name, fields) == [name |-> name, fields |-> fields]
InterfaceType(name, fields, possible_types) ==
    [name |-> name, fields |-> fields, possible_types |-> possible_types]

\* the field of the object with this name
FieldNamed(object, name) ==
    LET found == SelectSeq(object.fields, LAMBDA field : field.name = name)
    IN  IF found = <<>> THEN None ELSE Some(found[1])
ArgNamed(field, name) ==
    LET found == SelectSeq(field.args, LAMBDA arg : arg.name = name)
    IN  IF found = <<>> THEN None ELSE Some(found[1])

\* whether the object's field has the signature the interface declares
ConformsByNameOnly(object, declared) == IsSome(FieldNamed(object, declared.name))
Conforms(object, declared) ==
    LET found == FieldNamed(object, declared.name)
    IN  /\ IsSome(found)
        /\ Unwrap(found).ty = declared.ty
        /\ Len(Unwrap(found).args) = Len(declared.args)
        /\ \A i \in DOMAIN declared.args :
              LET arg == ArgNamed(Unwrap(found), declared.args[i].name)
              IN  IsSome(arg) /\ Unwrap(arg).ty = declared.args[i].ty

\* the builder's check of one interface: every field against every
\* implementor; the first that does not conform ends the build
RECURSIVE CheckFields(_, _), CheckImplementors(_, _)
CheckFields(object, fields) ==
    IF fields = <<>> THEN TRUE
    ELSE IF ~Conforms(object, Head(fields)) THEN FALSE
    ELSE CheckFields(object, Tail(fields))
CheckImplementors(interface, objects) ==
    IF objects = <<>> THEN TRUE
    ELSE IF ~CheckFields(Head(objects), interface.fields) THEN FALSE
    ELSE CheckImplementors(interface, Tail(objects))

\* Schema::new(Query, EmptyMutation, EmptySubscription): the schema, or a panic
SchemaNew(interface) ==
    IF CheckImplementors(interface, interface.possible_types) THEN Ok("Schema")
    ELSE Panic

\* the schemas of the model: MyObj with one field, alone under MyInterface
\* or together with a second object, and the field MyInterface declares
TypeNames == {"Int", "String"}
ArgLists ==
    { args \in SeqUpTo([name : {"a", "b"}, ty : TypeNames], MaxArgs) :
         \A i, j \in DOMAIN args : i # j => args[i].name # args[j].name }
ObjectFieldDefs ==
    { FieldDef("id", "Int", <<>>) }
        \cup { FieldDef("value", ty, args) : ty \in TypeNames, args \in ArgLists }
InterfaceFieldDefs ==
    { FieldDef(name, ty, args) :
         name \in {"id", "id1", "value"}, ty \in TypeNames, args \in ArgLists }
OtherObjects ==
    { ObjectType("Other", <<FieldDef("value", "String", <<Arg("a", "Int")>>),
                            FieldDef("id", "Int", <<>>)>>),
      ObjectType("Other", <<FieldDef("title", "String", <<>>)>>) }
Implementors ==
    { <<ObjectType("MyObj", <<field>>)>> \o others :
         field \in ObjectFieldDefs,
         others \in {<<>>} \cup { <<other>> : other \in OtherObjects } }

InitSchema == ResolveIdle /\ VarsIdle /\ EnvIdle

SchemaNewCall(interface) ==
    /\ op = NoOp
    /\ op' = [name |-> "schema_new", interface |-> interface,
              result |-> SchemaNew(interface)]
    /\ UNCHANGED <<counter, ctxs, calls, allocated, variables, variable_definitions,
                   data, visitor>>

NextSchema ==
    \E declared \in InterfaceFieldDefs, objects \in Implementors :
       SchemaNewCall(InterfaceType("MyInterface", <<declared>>, objects))

SpecSchema == InitSchema /\ [][NextSchema]_vars

(***************************************************************************)
(* Interface conformance: claim C24                                        *)
(***************************************************************************)

\* the ways in which an object misses a field an interface declares
Missing(object, declared) ==
    \A k \in DOMAIN object.fields : object.fields[k].name # declared.name
Mismatch(object, declared) ==
    \E k \in DOMAIN object.fields :
       LET field == object.fields[k]
       IN  /\ field.name = declared.name
           /\ \/ field.ty # declared.ty
              \/ Len(field.args) # Len(declared.args)
              \/ \E i \in DOMAIN declared.args :
                    \/ \A j \in DOMAIN field.args :
                          field.args[j].name # declared.args[i].name
                    \/ \E j \in DOMAIN field.args :
                          /\ field.args[j].name = declared.args[i].name
                          /\ field.args[j].ty # declared.args[i].ty

\* C24: Schema::new panics whenever an interface declares a field that an
\* implementing object does not have, or has with a different return type, a
\* different number of arguments, an argument of a different type or an
\* argument of a different name; it succeeds when every field of the
\* interface matches the field of every implementor.
C24_SchemaNewPanicsIffMismatch ==
    op.name = "schema_new" =>
        ( op.result = Panic
            <=> \E k \in DOMAIN op.interface.possible_types,
                   f \in DOMAIN op.interface.fields :
                   LET object == op.interface.possible_types[k]
                       declared == op.interface.fields[f]
                   IN  Missing(object, declared) \/ Mismatch(object, declared) )

SchemaOf(field, declared) ==
    InterfaceType("MyInterface", <<declared>>, <<ObjectType("MyObj", <<field>>)>>)
ValueOfA == FieldDef("value", "String", <<Arg("a", "Int")>>)
\* the five schemas the tests expect to panic
C24_Witness ==
    /\ op.name = "schema_new"
    /\ op.result = Panic
    /\ op.interface \in
          { SchemaOf(FieldDef("id", "Int", <<>>), FieldDef("id", "String", <<>>)),
            SchemaOf(FieldDef("id", "Int", <<>>), FieldDef("id1", "String", <<>>)),
            SchemaOf(ValueOfA, FieldDef("value", "String",
                                        <<Arg("a", "Int"), Arg("b", "Int")>>)),
            SchemaOf(ValueOfA, FieldDef("value", "String", <<Arg("a", "String")>>)),
            SchemaOf(ValueOfA, FieldDef("value", "String", <<Arg("b", "Int")>>)) }
\* the schema of test_interface_simple_object is built
C24_BuiltWitness ==
    /\ op.name = "schema_new"
    /\ op.interface = SchemaOf(FieldDef("id", "Int", <<>>), FieldDef("id", "Int", <<>>))
    /\ op.result = Ok("Schema")

(***************************************************************************)
(* One level of resolution: claim C25                                      *)
(***************************************************************************)

\* the argument param_value read and gave to resolve_input_value
Argument == op.arguments[op.arg]
ResolvesArgument == op.name = "param_value" /\ op.arg \in DOMAIN op.arguments

\* the direct elements of a list or object that are a Variable, in the order
\* of the list or of the object's keys
Places(value) ==
    IF value.kind = "List" THEN [i \in 1..Len(value.val) |-> i]
    ELSE SortedKeys(value.val)
VariablePlaces(value) ==
    SelectSeq(Places(value), LAMBDA k : value.val[k].kind = "Variable")
ValueOfVariable(variable) == VarValue(variables, variable_definitions, variable.val)
FailingPlaces(value) ==
    SelectSeq(VariablePlaces(value), LAMBDA k : ~ValueOfVariable(value.val[k]).ok)

\* C25: resolve_input_value replaces a top-level Variable and every Variable
\* that is a direct element of a top-level list or object by its resolved
\* value; every other element, the Variables deeper down included, comes back
\* unchanged, with the length, the order and the keys kept; and the call
\* fails with VarNotDefined at the first variable it cannot resolve.
C25_OneLevelOnly ==
    ResolvesArgument =>
        CASE Argument.kind = "Variable" -> Resolution = ValueOfVariable(Argument)
          [] Argument.kind \in {"List", "Object"} ->
               IF FailingPlaces(Argument) = <<>>
               THEN /\ Resolution.ok
                    /\ Resolution.val.kind = Argument.kind
                    /\ DOMAIN Resolution.val.val = DOMAIN Argument.val
                    /\ \A k \in DOMAIN Argument.val :
                          IF Argument.val[k].kind = "Variable"
                          THEN Ok(Resolution.val.val[k]) = ValueOfVariable(Argument.val[k])
                          ELSE Resolution.val.val[k] = Argument.val[k]
               ELSE Resolution
                       = Err(VarNotDefined(Argument.val[FailingPlaces(Argument)[1]].val))
          [] OTHER -> Resolution = Ok(Argument)

\* a list whose first element is a variable that was replaced and whose
\* second element is a list that still holds the variable
C25_Witness ==
    /\ ResolvesArgument
    /\ Argument = List(<<Variable("v"), List(<<Variable("v")>>)>>)
    /\ Declared("v") /\ "v" \in DOMAIN Bundle
    /\ Resolution.ok
    /\ Resolution.val.val[1] = Bundle["v"]
    /\ Resolution.val.val[2] = List(<<Variable("v")>>)
\* a list of two variables of which the first cannot be resolved
C25_FailureWitness ==
    /\ ResolvesArgument
    /\ Argument = List(<<Variable("u"), Variable("v")>>)
    /\ Resolution = Err(VarNotDefined("u"))

(***************************************************************************)
(* Termination of the overlapping-fields check: claim C26                  *)
(***************************************************************************)

\* find was called on the selection set of a fragment while a call of find
\* on the same fragment has not returned.  The inner call visits what the
\* outer one visited, the spread that led to it included, so it calls find
\* on the fragment again, and no call of the chain ever returns.
Reentered ==
    \E i, j \in DOMAIN visitor.names :
       /\ i < j
       /\ visitor.names[i] # NotFragment
       /\ visitor.names[i] = visitor.names[j]

\* C26: the overlapping-fields check terminates on every document, also when
\* the fragment spreads form a cycle: the walk completes and returns its
\* errors, so find never calls itself on a fragment it is still expanding.
C26_FindTerminates ==
    visitor.rule = "OverlappingFieldsCanBeMerged" => ~Reentered

\* a selection set that spreads no cyclic fragment was checked to the end
C26_AcyclicDone ==
    /\ visitor.rule = "OverlappingFieldsCanBeMerged"
    /\ visitor.pc = "done"
    /\ \E k \in DOMAIN visitor.selection_set :
          /\ visitor.selection_set[k].kind = "FragmentSpread"
          /\ visitor.selection_set[k].fragment_name = "F"

(***************************************************************************)
(* One error for each conflict: claim C27                                  *)
(***************************************************************************)

\* the errors the rule has reported on the two fields at these positions
ErrorsOn(locations) ==
    SelectSeq(visitor.errors, LAMBDA error : error.locations = locations)

\* C27: for each pair of conflicting fields the rule reports exactly one
\* error, in however many respects the two fields differ: no two of the
\* errors it has reported are on the same pair of fields.
C27_OneErrorForEachPair ==
    visitor.rule = "OverlappingFieldsCanBeMerged" =>
        \A k \in DOMAIN visitor.errors :
           Len(ErrorsOn(visitor.errors[k].locations)) = 1

\* two fields of one response key that differ in their names and in the
\* number of their arguments were reported twice
C27_ReportedTwice ==
    /\ visitor.rule = "OverlappingFieldsCanBeMerged"
    /\ visitor.pc = "done"
    /\ \E k \in DOMAIN visitor.errors :
          /\ Len(ErrorsOn(visitor.errors[k].locations)) = 2
          /\ { error.message : error \in
                 { ErrorsOn(visitor.errors[k].locations)[i] : i \in 1..2 } }
                = {"different fields", "differing arguments"}

(***************************************************************************)
(* The life of one Variables: Variables::default or parse_from_json, then  *)
(* the uploads of a multipart request                                      *)
(***************************************************************************)
MaxUploads == 2    \* calls of set_upload on one Variables

\* the JSON texts of the `variables` of the model's requests
VariablesJson ==
    JsonLeaves
        \cup { JsonArray(<<j>>) : j \in JsonLeaves }
        \cup { JsonObject(<<>>), JsonObject([n \in {"a"} |-> JsonNull]) }
        \cup { JsonObject([n \in {"a", "b"} |-> IF n = "a" THEN JsonArray(<<j>>)
                                                ELSE JsonObject([m \in {"a"} |-> j])]) :
                 j \in JsonLeaves }

\* Variables::default()
InitVariables ==
    /\ ResolveIdle
    /\ EnvIdle
    /\ variables = VariablesDefault
    /\ variable_definitions = <<>>
    /\ op = NoOp

Uploads == IF op = NoOp THEN 0 ELSE op.uploads

\* Variables::parse_from_json(value) in place of the default; a call that
\* unwinds leaves no Variables behind, and the request ends there
VariablesFromJson(value) ==
    /\ op = NoOp
    /\ LET result == ParseFromJson(value)
       IN  /\ variables' = IF result.ok THEN result.val ELSE variables
           /\ op' = [name |-> "parse_from_json", value |-> value, var_path |-> <<>>,
                     result |-> result, uploads |-> 0]
    /\ UNCHANGED <<counter, ctxs, calls, allocated, variable_definitions, data, visitor>>

\* variables.set_upload(var_path, ..) for one more part of the request
VariablesSetUpload(var_path, filename, content_type, path) ==
    /\ op.name = "parse_from_json" => op.result.ok
    /\ Uploads < MaxUploads
    /\ variables' = SetUpload(variables, var_path, filename, content_type, path)
    /\ op' = [name |-> "set_upload", value |-> JsonNull, var_path |-> var_path,
              result |-> Ok(variables'), uploads |-> Uploads + 1]
    /\ UNCHANGED <<counter, ctxs, calls, allocated, variable_definitions, data, visitor>>

NextVariables ==
    \/ \E value \in VariablesJson : VariablesFromJson(value)
    \/ \E var_path \in VarPaths :
          VariablesSetUpload(var_path, "a.txt", None, "/tmp/upload0")

SpecVariables == InitVariables /\ [][NextVariables]_vars

(***************************************************************************)
(* The variables are an object: claim C28                                  *)
(***************************************************************************)

\* Deref for Variables does not reach `unreachable!()`
DerefIsObject == variables.kind = "Object"

\* C28: the value held by Variables is an Object in every reachable state:
\* after Variables::default, after parse_from_json of any JSON value, which
\* gives the empty object for a JSON value that is not an object and never
\* an error, and after any sequence of set_upload calls.
C28_VariablesIsObject ==
    /\ DerefIsObject
    /\ op.name = "parse_from_json" =>
          /\ op.result.ok
          /\ op.value.kind # "Object" => variables = VariablesDefault

\* the part of the claim the code keeps: whatever was parsed and uploaded,
\* the value that is held is an Object
C28_HeldValueIsObject ==
    /\ DerefIsObject
    /\ ( op.name = "parse_from_json" /\ op.result.ok /\ op.value.kind # "Object" )
          => variables = VariablesDefault

\* parse_from_json of a JSON number above i64::MAX unwinds
C28_Unwound ==
    /\ op.name = "parse_from_json"
    /\ op.value.kind = "Number"
    /\ op.value.n = "PosInt"
    /\ op.value.val = <<65535, 0, 0, 0>>
    /\ op.result = Panic
\* two uploads went into the variables of a request
C28_Uploaded ==
    /\ op.name = "set_upload"
    /\ op.uploads = 2
    /\ DOMAIN variables.val = {"a", "b"}
    /\ variables.val["a"].kind = "List"
    /\ variables.val["a"].val[1].kind = "String"
    /\ variables.val["a"].val[1].val = FileString("a.txt", None, "/tmp/upload0")
    /\ variables.val["b"].kind = "Object"
    /\ variables.val["b"].val["a"].kind = "String"
    /\ variables.val["b"].val["a"].val = FileString("a.txt", None, "/tmp/upload0")

====
